---- MODULE Spec2Model ----
(***************************************************************************)
(* Model of the amazon-ecs-deploy-express-service action (src/index.js):   *)
(* run() validates its inputs, checks whether the service exists, builds   *)
(* the service configuration, sends the create or update command and then  *)
(* polls the service and its deployment in waitForServiceStable().         *)
(*                                                                         *)
(* Strings are sequences of symbols: the separators the code looks at      *)
(* (" ", ":", "[", "]", ",") are symbols of their own and a run of other   *)
(* characters is one symbol.  An absent (undefined, null) string is the    *)
(* empty sequence, which is falsy like the empty string.  A message is a   *)
(* sequence of words.  Numeric inputs are spelled character by character;  *)
(* in tag texts the equals sign, the line break and the braces are symbols *)
(* of their own.                                                           *)
(*                                                                         *)
(* Spec is the whole invocation.  SpecDeploy is run() up to the call of    *)
(* waitForServiceStable over a wider set of inputs, regions and remote     *)
(* tags; it includes the tag reconciler of the update path, which the      *)
(* design describes but src/index.js does not contain.                     *)
(***************************************************************************)
EXTENDS Integers, Sequences, FiniteSets, TLC

VARIABLES
    inputs,               \* what core.getInput returns, by input name
    region,               \* what ecs.config.region() resolves to
    pc,                   \* run(): start, check, dispatch, update, poll, done
    now,                  \* the wall clock as last read, in milliseconds
    serviceArn,           \* run: the constructed service ARN
    serviceExists,        \* run: the classification of the existence check
    describeResponse,     \* run: outcome of the DescribeServices command
    request,              \* the create or update command that was sent
    response,             \* run: outcome of the create or update command
    deploymentStartTime,  \* run: timestamp taken right before the command
    finalServiceArn,      \* run: the ARN handed to waitForServiceStable
    startTime,            \* waitForServiceStable: Date.now() on entry
    serviceActive,        \* waitForServiceStable: ACTIVE has been seen
    deploymentArn,        \* waitForServiceStable: the pinned deployment
    pollExit,             \* how waitForServiceStable left its loop
    tick,                 \* the commands and responses of the latest iteration
    calls,                \* number of commands sent by run(), by command
    remoteTags,           \* the platform: the tags of the service
    remote,               \* the platform: the service the inputs name
    invocations,          \* the invocations that ran before this one
    tagging,              \* the tag reconciler: its sets, its calls, its failure
    outputs,              \* the core.setOutput calls, in order
    failed                \* the core.setFailed messages, in order

vars == <<inputs, region, pc, now, serviceArn, serviceExists, describeResponse,
          request, response, deploymentStartTime, finalServiceArn, startTime,
          serviceActive, deploymentArn, pollExit, tick, calls, remoteTags,
          remote, invocations, tagging, outputs, failed>>

(***************************************************************************)
(* Program constants                                                       *)
(***************************************************************************)
maxWaitMinutes == 15

pollIntervalSeconds == 15

maxWaitMs == maxWaitMinutes * 60 * 1000

\* the default of the input wait-for-minutes in README.md and action.yml
DefaultWaitMinutes == 30

(***************************************************************************)
(* Bounds of the model                                                     *)
(***************************************************************************)
\* how long the remote calls of one iteration take when they are slow, in
\* milliseconds (the clock is read at the top of each iteration)
SlowCall == 900000

\* the most tags of a tag list that is given in both formats
MaxTags == 2

Latencies == {0, SlowCall}

(***************************************************************************)
(* String helpers                                                          *)
(***************************************************************************)
IsSpace(c) == c \in {" ", "\n", "\t"}

RECURSIVE TrimStart(_)
TrimStart(s) ==
    IF s # <<>> /\ IsSpace(Head(s)) THEN TrimStart(Tail(s)) ELSE s

RECURSIVE TrimEnd(_)
TrimEnd(s) ==
    IF s # <<>> /\ IsSpace(s[Len(s)])
    THEN TrimEnd(SubSeq(s, 1, Len(s) - 1))
    ELSE s

Trim(s) == TrimEnd(TrimStart(s))

\* !x || x.trim() === ''
IsBlank(s) == s = <<>> \/ Trim(s) = <<>>

\* s.split(sep): the pieces of s between the occurrences of sep
RECURSIVE Split(_, _)
Split(s, sep) ==
    IF \A i \in 1..Len(s) : s[i] # sep
    THEN <<s>>
    ELSE LET i == CHOOSE k \in 1..Len(s) :
                      s[k] = sep /\ \A j \in 1..(k - 1) : s[j] # sep
         IN  <<SubSeq(s, 1, i - 1)>> \o Split(SubSeq(s, i + 1, Len(s)), sep)

\* message.includes(word), at the granularity of words
Includes(message, word) == \E i \in 1..Len(message) : message[i] = word

(***************************************************************************)
(* Values                                                                  *)
(***************************************************************************)
\* the inputs of README.md and action.yml; run() reads the first twenty-three
InputNames ==
    {"service-name", "image", "execution-role-arn", "infrastructure-role-arn",
     "cluster", "container-port", "environment-variables", "secrets", "command",
     "log-group", "log-stream-prefix", "repository-credentials", "tags", "cpu",
     "memory", "task-role-arn", "subnets", "security-groups",
     "health-check-path", "min-task-count", "max-task-count",
     "auto-scaling-metric", "auto-scaling-target-value", "mutate-tags-on-update",
     "wait-for-service-stability", "wait-for-deployment", "wait-for-minutes"}

\* the inputs that are given; every other input is the empty string
WithInputs(given) ==
    [name \in InputNames |-> IF name \in DOMAIN given THEN given[name] ELSE <<>>]

ExecutionRole ==
    <<"arn", ":", "aws", ":", "iam", ":", ":", "123456789012", ":", "role/exec">>

\* an execution role ARN with only four segments
ShortRole == <<"arn", ":", "aws", ":", "iam", ":", "role/exec">>

InfrastructureRole ==
    <<"arn", ":", "aws", ":", "iam", ":", ":", "123456789012", ":", "role/infra">>

ServiceNames == {<<>>, <<" ">>, <<"svc">>}

Images == {<<>>, <<" ">>, <<"img">>}

ExecutionRoles == {<<>>, ShortRole, ExecutionRole}

InfrastructureRoles == {<<>>, <<" ", " ">>, InfrastructureRole}

\* the optional inputs: all blank, a cluster with well-formed JSON, broken JSON
OptionalInputs ==
    { ("cluster" :> <<>>) @@ ("environment-variables" :> <<>>),
      ("cluster" :> <<"prod">>) @@ ("environment-variables" :> <<"[", "NAME=v", "]">>)
          @@ ("wait-for-service-stability" :> <<"false">>)
          @@ ("wait-for-deployment" :> <<"false">>)
          @@ ("wait-for-minutes" :> <<"6", "0">>),
      ("cluster" :> <<>>) @@ ("environment-variables" :> <<"[", "NAME=v">>) }

Regions == {<<"us-east-1">>}

\* the ARN a create or update response carries when it carries one
ServerArn ==
    <<"arn", ":", "aws", ":", "ecs", ":", "us-east-1", ":", "123456789012",
      ":", "service/", "default", "/", "assigned">>

NoError == [name |-> "", message |-> <<>>]

RemoteErrors ==
    { [name |-> "ServiceNotFoundException",  message |-> <<"Service not found">>],
      [name |-> "ClusterNotFoundException",  message |-> <<"Cluster not found">>],
      [name |-> "AccessDeniedException",     message |-> <<"User is not authorized">>],
      [name |-> "InvalidParameterException", message |-> <<"Bad cpu value">>],
      [name |-> "ThrottlingException",       message |-> <<"Rate exceeded">>] }

\* DescribeServices is sent for one service name: at most one record comes back
NoDescribe == [kind |-> "none", error |-> NoError, services |-> <<>>]

DescribeServicesResponses ==
    [kind : {"ok"}, error : {NoError},
     services : {<<>>, <<[status |-> "ACTIVE"]>>, <<[status |-> "DRAINING"]>>,
                 <<[status |-> "INACTIVE"]>>}]
    \cup
    [kind : {"error"},
     error : {e \in RemoteErrors : e.name # "InvalidParameterException"},
     services : {<<>>}]

NoMutation == [kind |-> "none", error |-> NoError, serviceArn |-> <<>>]

MutationResponses ==
    [kind : {"ok"}, error : {NoError}, serviceArn : {<<>>, ServerArn}]
    \cup
    [kind : {"error"},
     error : {e \in RemoteErrors : e.name # "ServiceNotFoundException"},
     serviceArn : {<<>>}]

NoRequest == [op |-> "none", params |-> <<>>]

(***************************************************************************)
(* run(): input validation and the service ARN                             *)
(***************************************************************************)
RequiredMessage(name) == <<"Input required and not supplied:", name>>

\* faulty variant: service-name is not among the inputs that are tested
MissingRequiredWithoutName(in) ==
    IF IsBlank(in["image"]) THEN RequiredMessage("image")
    ELSE IF IsBlank(in["execution-role-arn"])
         THEN RequiredMessage("execution-role-arn")
    ELSE IF IsBlank(in["infrastructure-role-arn"])
         THEN RequiredMessage("infrastructure-role-arn")
    ELSE <<>>

\* the first required input that is blank, in the order the code tests them
MissingRequired(in) ==
    IF IsBlank(in["service-name"]) THEN RequiredMessage("service-name")
    ELSE IF IsBlank(in["image"]) THEN RequiredMessage("image")
    ELSE IF IsBlank(in["execution-role-arn"])
         THEN RequiredMessage("execution-role-arn")
    ELSE IF IsBlank(in["infrastructure-role-arn"])
         THEN RequiredMessage("infrastructure-role-arn")
    ELSE <<>>

\* core.getInput('cluster') || 'default'
ClusterName(in) == IF in["cluster"] = <<>> THEN <<"default">> ELSE in["cluster"]

ArnParts(in) == Split(in["execution-role-arn"], ":")

ArnFormatMessage(in) ==
    IF Len(ArnParts(in)) < 5
    THEN <<"Invalid execution-role-arn format:">> \o in["execution-role-arn"]
    ELSE <<>>

\* faulty variant: the segment before the account segment
AccountIdFourthPiece(in) == ArnParts(in)[4]

\* arnParts[4], counting from 0
AccountId(in) == ArnParts(in)[5]

ConstructServiceArn(in, reg) ==
    <<"arn", ":", "aws", ":", "ecs", ":">> \o reg \o <<":">> \o AccountId(in)
        \o <<":", "service/">> \o ClusterName(in) \o <<"/">> \o in["service-name"]

\* faulty variant: a command that failed is sent once more
FailAndRetry(message) ==
    /\ failed' = Append(failed, message)
    /\ pc' = IF pc \in {"dispatch", "update"} THEN pc ELSE "done"

\* throw inside the try block of run(): the catch calls core.setFailed
Fail(message) ==
    /\ failed' = Append(failed, message)
    /\ pc' = "done"

pollVars == <<startTime, serviceActive, deploymentArn, pollExit, tick>>

tagVars == <<remoteTags, tagging>>

remoteVars == <<remote, invocations>>

ValidateInputs ==
    /\ pc = "start"
    /\ IF MissingRequired(inputs) # <<>>
       THEN /\ Fail(MissingRequired(inputs))
            /\ UNCHANGED serviceArn
       ELSE IF ArnFormatMessage(inputs) # <<>>
       THEN /\ Fail(ArnFormatMessage(inputs))
            /\ UNCHANGED serviceArn
       ELSE /\ serviceArn' = ConstructServiceArn(inputs, region)
            /\ pc' = "check"
            /\ UNCHANGED failed
    /\ UNCHANGED <<inputs, region, now, serviceExists, describeResponse, request,
                   response, deploymentStartTime, finalServiceArn, calls, outputs>>
    /\ UNCHANGED pollVars
    /\ UNCHANGED tagVars
    /\ UNCHANGED remoteVars

(***************************************************************************)
(* run(): the existence check                                              *)
(***************************************************************************)
\* faulty variant: any returned record counts as an existing service
ClassifyExistsAnyRecord(resp) == Len(resp.services) > 0

\* faulty variant: a record that came back is never taken for the service
ClassifyExistsNever(resp) == FALSE

\* the classification made from a DescribeServices response that arrived
ClassifyExists(resp) ==
    /\ Len(resp.services) > 0
    /\ resp.services[1].status # "INACTIVE"

\* faulty variant: only the missing service is expected, not the missing cluster
IsNotFoundServiceOnly(error) == error.name = "ServiceNotFoundException"

\* faulty variant: the catch swallows every error of the existence query
IsNotFoundAnyError(error) == TRUE

IsNotFound(error) ==
    error.name \in {"ServiceNotFoundException", "ClusterNotFoundException"}

CheckServiceExists ==
    /\ pc = "check"
    /\ \E resp \in DescribeServicesResponses :
         /\ describeResponse' = resp
         /\ calls' = [calls EXCEPT !.DescribeServices = @ + 1]
         /\ IF resp.kind = "ok"
            THEN /\ serviceExists' = ClassifyExists(resp)
                 /\ pc' = "dispatch"
                 /\ UNCHANGED failed
            ELSE IF IsNotFound(resp.error)
            THEN /\ serviceExists' = FALSE
                 /\ pc' = "dispatch"
                 /\ UNCHANGED failed
            ELSE /\ Fail(resp.error.message)
                 /\ UNCHANGED serviceExists
    /\ UNCHANGED <<inputs, region, now, serviceArn, request, response,
                   deploymentStartTime, finalServiceArn, outputs>>
    /\ UNCHANGED pollVars
    /\ UNCHANGED tagVars
    /\ UNCHANGED remoteVars

(***************************************************************************)
(* run(): the service configuration                                        *)
(***************************************************************************)
Punctuation == {"[", "]", ","}

\* the text between the brackets of an array: values separated by commas
IsElementList(t) ==
    \/ t = <<>>
    \/ /\ Len(t) % 2 = 1
       /\ \A i \in 1..Len(t) :
            IF i % 2 = 1 THEN t[i] \notin Punctuation ELSE t[i] = ","

\* JSON.parse on the symbols of the text: an array of values or one value
ParseJSON(text) ==
    LET t == SelectSeq(text, LAMBDA c : ~IsSpace(c))
        n == Len(t)
    IN  IF n = 1 /\ t[1] \notin Punctuation
        THEN [ok |-> TRUE, isArray |-> FALSE, items |-> t, error |-> <<>>]
        ELSE IF n >= 2 /\ t[1] = "[" /\ t[n] = "]"
                /\ IsElementList(SubSeq(t, 2, n - 1))
        THEN [ok |-> TRUE, isArray |-> TRUE,
              items |-> SelectSeq(SubSeq(t, 2, n - 1),
                                  LAMBDA c : c \notin Punctuation),
              error |-> <<>>]
        ELSE [ok |-> FALSE, isArray |-> FALSE, items |-> <<>>,
              error |-> <<"Unexpected end of JSON input">>]

Absent == [x \in {} |-> x]

\* x && x.trim() !== ''
Present(s) == ~IsBlank(s)

\* a field of an object literal that is set only under a condition
Optional(present, name, value) == IF present THEN name :> value ELSE Absent

Digits == <<"0", "1", "2", "3", "4", "5", "6", "7", "8", "9">>

IsDigit(c) == \E n \in 1..Len(Digits) : Digits[n] = c

DigitValue(c) == (CHOOSE n \in 1..Len(Digits) : Digits[n] = c) - 1

\* the longest prefix of s that consists of digits
RECURSIVE DigitPrefix(_)
DigitPrefix(s) ==
    IF s # <<>> /\ IsDigit(Head(s)) THEN <<Head(s)>> \o DigitPrefix(Tail(s)) ELSE <<>>

\* the number a sequence of digits spells in base 10
RECURSIVE Base10(_)
Base10(d) ==
    IF d = <<>> THEN 0 ELSE 10 * Base10(SubSeq(d, 1, Len(d) - 1)) + DigitValue(d[Len(d)])

\* a sequence of digits without its trailing zeros
RECURSIVE StripZeros(_)
StripZeros(d) ==
    IF d # <<>> /\ d[Len(d)] = "0" THEN StripZeros(SubSeq(d, 1, Len(d) - 1)) ELSE d

\* a number is mantissa / 10^scale; NaN is the number that is none
NaN == [nan |-> TRUE, mantissa |-> 0, scale |-> 0]

Number(mantissa, scale) == [nan |-> FALSE, mantissa |-> mantissa, scale |-> scale]

\* what is left of a numeral after leading white space and a sign
Unsigned(s) ==
    LET t == TrimStart(s)
    IN  IF t # <<>> /\ Head(t) \in {"+", "-"} THEN Tail(t) ELSE t

Sign(s) == IF TrimStart(s) # <<>> /\ Head(TrimStart(s)) = "-" THEN -1 ELSE 1

\* parseInt(s, 10): white space, a sign, then digits up to the first other character
ParseInt(s) ==
    LET d == DigitPrefix(Unsigned(s))
    IN  IF d = <<>> THEN NaN ELSE Number(Sign(s) * Base10(d), 0)

\* parseFloat(s) on numerals without exponent: digits, then "." and digits
ParseFloat(s) ==
    LET u == Unsigned(s)
        whole == DigitPrefix(u)
        rest == SubSeq(u, Len(whole) + 1, Len(u))
        fraction == IF rest # <<>> /\ Head(rest) = "." THEN DigitPrefix(Tail(rest))
                    ELSE <<>>
    IN  IF whole = <<>> /\ fraction = <<>> THEN NaN
        ELSE Number(Sign(s) * Base10(whole \o StripZeros(fraction)),
                    Len(StripZeros(fraction)))

\* s.split(',').map(s => s.trim()).filter(s => s !== '')
SplitList(s) ==
    LET pieces == Split(s, ",")
    IN  SelectSeq([i \in 1..Len(pieces) |-> Trim(pieces[i])], LAMBDA x : x # <<>>)

\* s.indexOf(c), counting from 1; 0 when c does not occur
IndexOf(s, c) ==
    IF \E i \in 1..Len(s) : s[i] = c
    THEN CHOOSE i \in 1..Len(s) : s[i] = c /\ \A j \in 1..(i - 1) : s[j] # c
    ELSE 0

Parsed(tags) == [ok |-> TRUE, tags |-> tags, error |-> <<>>]

ParseFailure(message) == [ok |-> FALSE, tags |-> <<>>, error |-> message]

TagPunctuation == {"[", "]", ",", "{", "}", ":"}

\* the symbols { k : v } stand for the object {"key": k, "value": v}; the key
\* and the value may be the empty string
IsTagObject(piece) ==
    /\ Len(piece) >= 3
    /\ piece[1] = "{"
    /\ piece[Len(piece)] = "}"
    /\ LET inner == SubSeq(piece, 2, Len(piece) - 1)
           i == IndexOf(inner, ":")
       IN  /\ i \in {1, 2}
           /\ Len(inner) - i <= 1
           /\ \A j \in 1..Len(inner) : j # i => inner[j] \notin TagPunctuation

\* faulty variant: the two members of the object are taken the other way round
TagObjectSwapped(piece) ==
    LET inner == SubSeq(piece, 2, Len(piece) - 1)
        i == IndexOf(inner, ":")
    IN  [key |-> SubSeq(inner, i + 1, Len(inner)), value |-> SubSeq(inner, 1, i - 1)]

TagObject(piece) ==
    LET inner == SubSeq(piece, 2, Len(piece) - 1)
        i == IndexOf(inner, ":")
    IN  [key |-> SubSeq(inner, 1, i - 1), value |-> SubSeq(inner, i + 1, Len(inner))]

\* parseTagsFromJSON: JSON.parse, then the array test
ParseTagsFromJSON(tagsInput) ==
    LET t == SelectSeq(tagsInput, LAMBDA c : ~IsSpace(c))
        n == Len(t)
        pieces == Split(SubSeq(t, 2, n - 1), ",")
    IN  IF IsBlank(tagsInput) THEN Parsed(<<>>)
        ELSE IF n = 1 /\ t[1] \notin TagPunctuation
        THEN ParseFailure(<<"Invalid tags JSON:", "Tags must be an array">>)
        ELSE IF n = 2 /\ t = <<"[", "]">> THEN Parsed(<<>>)
        ELSE IF /\ n > 2 /\ t[1] = "[" /\ t[n] = "]"
                /\ \A i \in 1..Len(pieces) : IsTagObject(pieces[i])
        THEN Parsed([i \in 1..Len(pieces) |-> TagObject(pieces[i])])
        ELSE ParseFailure(<<"Invalid tags JSON:", "Unexpected token in JSON">>)

\* faulty variant: a line without a separator or without a key is skipped
RECURSIVE ParseTagLinesSkipBad(_)
ParseTagLinesSkipBad(lines) ==
    IF lines = <<>> THEN Parsed(<<>>)
    ELSE LET trimmedLine == Trim(Head(lines))
             equalIndex == IndexOf(trimmedLine, "=")
             key == Trim(SubSeq(trimmedLine, 1, equalIndex - 1))
             value == Trim(SubSeq(trimmedLine, equalIndex + 1, Len(trimmedLine)))
             rest == ParseTagLinesSkipBad(Tail(lines))
         IN  IF trimmedLine = <<>> \/ equalIndex = 0 \/ key = <<>> THEN rest
             ELSE Parsed(<<[key |-> key, value |-> value]>> \o rest.tags)

\* the loop of parseTagsFromMultiline over the lines that are left
RECURSIVE ParseTagLines(_)
ParseTagLines(lines) ==
    IF lines = <<>> THEN Parsed(<<>>)
    ELSE LET trimmedLine == Trim(Head(lines))
             equalIndex == IndexOf(trimmedLine, "=")
             key == Trim(SubSeq(trimmedLine, 1, equalIndex - 1))
             value == Trim(SubSeq(trimmedLine, equalIndex + 1, Len(trimmedLine)))
             rest == ParseTagLines(Tail(lines))
         IN  IF trimmedLine = <<>> THEN rest
             ELSE IF equalIndex = 0
             THEN ParseFailure(<<"Invalid tag format:">> \o trimmedLine
                                   \o <<"Expected format: key=value">>)
             ELSE IF key = <<>>
             THEN ParseFailure(<<"Empty tag key in line:">> \o trimmedLine)
             ELSE IF rest.ok
             THEN Parsed(<<[key |-> key, value |-> value]>> \o rest.tags)
             ELSE rest

ParseTagsFromMultiline(tagsInput) ==
    IF IsBlank(tagsInput) THEN Parsed(<<>>)
    ELSE ParseTagLines(Split(tagsInput, "\n"))

\* run(): tags.trim().startsWith('[') chooses the parser
ParseTags(tags) ==
    IF Head(Trim(tags)) = "[" THEN ParseTagsFromJSON(tags)
    ELSE ParseTagsFromMultiline(tags)

JSONError(in, name) ==
    IF Present(in[name]) /\ ~ParseJSON(in[name]).ok
    THEN <<"Invalid", name, "JSON:">> \o ParseJSON(in[name]).error
    ELSE <<>>

TagsError(in) ==
    IF Present(in["tags"]) /\ ~ParseTags(in["tags"]).ok
    THEN <<"Tag parsing failed:">> \o ParseTags(in["tags"]).error
    ELSE <<>>

\* the first message thrown while serviceConfig is built, <<>> when none is
BuildError(in) ==
    IF JSONError(in, "environment-variables") # <<>>
    THEN JSONError(in, "environment-variables")
    ELSE IF JSONError(in, "secrets") # <<>> THEN JSONError(in, "secrets")
    ELSE IF JSONError(in, "command") # <<>> THEN JSONError(in, "command")
    ELSE TagsError(in)

\* the core.setFailed calls a build error leads to: the catch around the tag
\* parsers calls core.setFailed itself before it throws to the catch of run()
BuildFailures(in) ==
    IF BuildError(in) = TagsError(in)
    THEN <<BuildError(in), BuildError(in)>>
    ELSE <<BuildError(in)>>

AwsLogsConfiguration(in) ==
    Optional(Present(in["log-group"]), "logGroup", in["log-group"])
    @@ Optional(Present(in["log-stream-prefix"]), "logStreamPrefix",
                in["log-stream-prefix"])

PrimaryContainer(in) ==
    [image |-> in["image"]]
    @@ Optional(Present(in["container-port"]), "containerPort",
                ParseInt(in["container-port"]))
    @@ Optional(Present(in["environment-variables"]), "environment",
                ParseJSON(in["environment-variables"]).items)
    @@ Optional(Present(in["secrets"]), "secrets", ParseJSON(in["secrets"]).items)
    @@ Optional(Present(in["command"]), "command", ParseJSON(in["command"]).items)
    @@ Optional(Present(in["log-group"]) \/ Present(in["log-stream-prefix"]),
                "awsLogsConfiguration", AwsLogsConfiguration(in))
    @@ Optional(Present(in["repository-credentials"]), "repositoryCredentials",
                [credentialsParameter |-> in["repository-credentials"]])

NetworkConfiguration(in) ==
    [subnets |-> SplitList(in["subnets"])]
    @@ Optional(Present(in["security-groups"])
                    /\ Len(SplitList(in["security-groups"])) > 0,
                "securityGroups", SplitList(in["security-groups"]))

ScalingInputs ==
    {"min-task-count", "max-task-count", "auto-scaling-metric",
     "auto-scaling-target-value"}

ScalingTarget(in) ==
    Optional(Present(in["min-task-count"]), "minTaskCount",
             ParseInt(in["min-task-count"]))
    @@ Optional(Present(in["max-task-count"]), "maxTaskCount",
                ParseInt(in["max-task-count"]))
    @@ Optional(Present(in["auto-scaling-metric"]), "autoScalingMetric",
                in["auto-scaling-metric"])
    @@ Optional(Present(in["auto-scaling-target-value"]), "autoScalingTargetValue",
                ParseFloat(in["auto-scaling-target-value"]))

\* serviceConfig once run() has built it (no build error)
BuildServiceConfig(in) ==
    [executionRoleArn |-> in["execution-role-arn"],
     infrastructureRoleArn |-> in["infrastructure-role-arn"],
     primaryContainer |-> PrimaryContainer(in),
     serviceName |-> in["service-name"]]
    @@ Optional(Present(in["cpu"]), "cpu", in["cpu"])
    @@ Optional(Present(in["memory"]), "memory", in["memory"])
    @@ Optional(Present(in["task-role-arn"]), "taskRoleArn", in["task-role-arn"])
    @@ Optional(Present(in["subnets"]) /\ Len(SplitList(in["subnets"])) > 0,
                "networkConfiguration", NetworkConfiguration(in))
    @@ Optional(ClusterName(in) # <<"default">>, "cluster", ClusterName(in))
    @@ Optional(Present(in["health-check-path"]), "healthCheckPath",
                in["health-check-path"])
    @@ Optional(Present(in["tags"]) /\ Len(ParseTags(in["tags"]).tags) > 0,
                "tags", ParseTags(in["tags"]).tags)
    @@ Optional(\E name \in ScalingInputs : Present(in[name]),
                "scalingTarget", ScalingTarget(in))

(***************************************************************************)
(* run(): create or update                                                 *)
(***************************************************************************)
\* faulty variant: a create is sent whatever the classification
MutationRequestCreateOnly(exists, arn, config) ==
    [op |-> "Create", params |-> config]

\* the command run() sends for a classification
MutationRequest(exists, arn, config) ==
    IF exists /\ arn # <<>>
    THEN [op |-> "Update", params |-> [serviceArn |-> arn] @@ config]
    ELSE [op |-> "Create", params |-> config]

\* faulty variant: the catch around create/update throws every error as it is
TranslateErrorVerbatim(error, clusterName) == error.message

\* the message of the error that leaves the catch around create/update
TranslateError(error, clusterName) ==
    IF error.name = "AccessDeniedException"
    THEN <<"Access denied:">> \o error.message
         \o <<"Please check that the IAM roles have the necessary permissions">>
    ELSE IF error.name = "InvalidParameterException"
    THEN <<"Invalid parameter:">> \o error.message
         \o <<"Please check your input values.">>
    ELSE IF error.name = "ClusterNotFoundException"
    THEN <<"Cluster not found:">> \o clusterName
         \o <<"Please check the cluster name and region.">>
    ELSE error.message

\* faulty variant: the timestamp is taken when the command has been answered
DeploymentStartTimeAfterCall(sent, answered) == answered

\* deploymentStartTime = new Date(), right before the command is sent at the
\* time sent and answered at the time answered
DeploymentStartTime(sent, answered) == sent

\* faulty variant: without the fallback to the constructed ARN
FinalServiceArnFromResponse(resp, arn) == resp.serviceArn

\* faulty variant: the ARN of the response is not looked at
FinalServiceArnConstructed(resp, arn) == arn

\* response?.service?.serviceArn || serviceArn
FinalServiceArn(resp, arn) ==
    IF resp.serviceArn # <<>> THEN resp.serviceArn ELSE arn

\* the ListServiceDeployments command: the service and createdAt.after
ListRequest(arn, after) == [service |-> arn, after |-> after]

NoListRequest == [service |-> <<>>, after |-> 0]

NoTick ==
    [calls |-> <<>>,
     listRequest |-> NoListRequest,
     svc |-> [kind |-> "none", message |-> <<>>, statusCode |-> ""],
     list |-> [kind |-> "none", message |-> <<>>, arns |-> <<>>],
     dep |-> [kind |-> "none", message |-> <<>>, arn |-> <<>>, status |-> ""],
     activeConfigurations |-> <<>>]

(***************************************************************************)
(* The tag reconciler of the update path                                   *)
(***************************************************************************)
NoTagging == [toRemove |-> <<>>, toAdd |-> <<>>, calls |-> <<>>, failure |-> "none"]

\* faulty variant: tags are reconciled on every update
MutateTagsAlways(in) == TRUE

\* tag mutation is requested by the input mutate-tags-on-update
MutateTags(in) == in["mutate-tags-on-update"] = <<"true">>

\* the tags the caller wants: none when the tags input is omitted
DesiredTags(in) ==
    IF Present(in["tags"]) THEN ParseTags(in["tags"]).tags ELSE <<>>

HasKey(tags, key) == \E i \in 1..Len(tags) : tags[i].key = key

Keys(tags) == [i \in 1..Len(tags) |-> tags[i].key]

\* the keys of the current tags that the desired tags do not have
TagsToRemove(current, desired) ==
    Keys(SelectSeq(current, LAMBDA c : ~HasKey(desired, c.key)))

\* faulty variant: only tags with a new key are added
TagsToAddNewKeys(current, desired) ==
    SelectSeq(desired, LAMBDA d : ~HasKey(current, d.key))

\* the desired tags that are not among the current tags with the same value
TagsToAdd(current, desired) ==
    SelectSeq(desired,
              LAMBDA d : ~\E i \in 1..Len(current) :
                             current[i].key = d.key /\ current[i].value = d.value)

\* the platform: the tags of a resource after an untag and after a tag call
Untagged(tags, keys) ==
    SelectSeq(tags, LAMBDA t : ~\E i \in 1..Len(keys) : keys[i] = t.key)

Tagged(tags, added) ==
    SelectSeq(tags, LAMBDA t : ~HasKey(added, t.key)) \o added

TagOutcomes == {"ok", "error"}

TagError == [name |-> "AccessDeniedException", message |-> <<"Access denied for tagging">>]

\* faulty variant: the untag call does not carry the keys
UntagCallWithoutKeys(arn, keys) ==
    [op |-> "UntagResource", resourceArn |-> arn, tagKeys |-> <<>>, tags |-> <<>>]

UntagCall(arn, keys) ==
    [op |-> "UntagResource", resourceArn |-> arn, tagKeys |-> keys, tags |-> <<>>]

TagCall(arn, tags) ==
    [op |-> "TagResource", resourceArn |-> arn, tagKeys |-> <<>>, tags |-> tags]

\* faulty variant: the error of the tag call is thrown as it is
TagFailureMessageBare(op, error) == error.message

\* the message of the failure a tag call that failed ends the invocation with
TagFailureMessage(op, error) ==
    IF op = "UntagResource" THEN <<"Tag removal failed:">> \o error.message
    ELSE <<"Tag application failed:">> \o error.message

\* run() on the update path reconciles the tags before it sends the update
NeedsReconcile ==
    serviceExists /\ MutateTags(inputs) /\ BuildError(inputs) = <<>>

ReconcileTags ==
    /\ pc = "dispatch"
    /\ NeedsReconcile
    /\ LET toRemove == TagsToRemove(remoteTags, DesiredTags(inputs))
           toAdd == TagsToAdd(remoteTags, DesiredTags(inputs))
           untagCalls == IF toRemove # <<>>
                         THEN <<UntagCall(serviceArn, toRemove)>> ELSE <<>>
           tagCalls == IF toAdd # <<>> THEN <<TagCall(serviceArn, toAdd)>> ELSE <<>>
       IN  \E untag \in IF toRemove # <<>> THEN TagOutcomes ELSE {"none"} :
           \E tag \in IF toAdd # <<>> /\ untag # "error"
                      THEN TagOutcomes ELSE {"none"} :
             IF untag = "error"
             THEN /\ tagging' = [toRemove |-> toRemove, toAdd |-> toAdd,
                                 calls |-> untagCalls, failure |-> "untag"]
                  /\ Fail(TagFailureMessage("UntagResource", TagError))
                  /\ UNCHANGED remoteTags
             ELSE IF tag = "error"
             THEN /\ tagging' = [toRemove |-> toRemove, toAdd |-> toAdd,
                                 calls |-> untagCalls \o tagCalls,
                                 failure |-> "tag"]
                  /\ remoteTags' = Untagged(remoteTags, toRemove)
                  /\ Fail(TagFailureMessage("TagResource", TagError))
             ELSE /\ tagging' = [toRemove |-> toRemove, toAdd |-> toAdd,
                                 calls |-> untagCalls \o tagCalls,
                                 failure |-> "none"]
                  /\ remoteTags' = Tagged(Untagged(remoteTags, toRemove), toAdd)
                  /\ pc' = "update"
                  /\ UNCHANGED failed
    /\ UNCHANGED <<inputs, region, now, serviceArn, serviceExists,
                   describeResponse, request, response, deploymentStartTime,
                   finalServiceArn, calls, outputs>>
    /\ UNCHANGED pollVars
    /\ UNCHANGED remoteVars

(***************************************************************************)
(* The platform's record of the service                                    *)
(***************************************************************************)
\* the service the inputs name, as the platform has it: its status ("absent"
\* when there is none, "untracked" where the model leaves the platform open)
\* and the number of changes other actors made to it
Untracked == [status |-> "untracked", changes |-> 0]

\* the platform after a create command that succeeded
Created(service) == [service EXCEPT !.status = "ACTIVE"]

(***************************************************************************)
(* run(): build, send, report                                              *)
(***************************************************************************)
Dispatch ==
    /\ \/ pc = "update"
       \/ pc = "dispatch" /\ ~NeedsReconcile
    /\ describeResponse' = NoDescribe
    /\ UNCHANGED tagging
    /\ IF BuildError(inputs) # <<>>
       THEN /\ failed' = failed \o BuildFailures(inputs)
            /\ pc' = "done"
            /\ UNCHANGED <<request, response, deploymentStartTime,
                           finalServiceArn, calls, outputs, startTime,
                           remoteTags, remote, now>>
       ELSE \E resp \in MutationResponses, latency \in Latencies :
              LET req == MutationRequest(serviceExists, serviceArn,
                                         BuildServiceConfig(inputs))
                  final == FinalServiceArn(resp, serviceArn)
              IN  /\ deploymentStartTime' = DeploymentStartTime(now, now + latency)
                  /\ now' = now + latency
                  /\ request' = req
                  /\ calls' = [calls EXCEPT ![req.op] = @ + 1]
                  /\ response' = resp
                  /\ IF resp.kind = "error"
                     THEN /\ Fail(TranslateError(resp.error, ClusterName(inputs)))
                          /\ UNCHANGED <<finalServiceArn, outputs, startTime,
                                         remoteTags, remote>>
                     ELSE /\ finalServiceArn' = final
                          /\ remoteTags' = IF req.op = "Update" THEN remoteTags
                                           ELSE DesiredTags(inputs)
                          /\ remote' = IF req.op = "Create" THEN Created(remote)
                                       ELSE remote
                          /\ outputs' = IF final # <<>>
                                        THEN Append(outputs, <<"service-arn", final>>)
                                        ELSE outputs
                          /\ startTime' = now + latency
                          /\ pc' = "poll"
                          /\ UNCHANGED failed
    /\ UNCHANGED <<inputs, region, serviceArn, serviceExists, serviceActive,
                   deploymentArn, pollExit, tick, invocations>>

(***************************************************************************)
(* waitForServiceStable(): what the remote platform may answer             *)
(***************************************************************************)
PollErrorMessages == {<<"Rate exceeded">>, <<"Request", "FAILED">>}

ServiceStatusCodes == {"CREATING", "ACTIVE", "DRAINING", "INACTIVE"}

DescribeServiceResponses ==
    [kind : {"error"}, message : PollErrorMessages, statusCode : {""}]
    \cup [kind : {"empty"}, message : {<<>>}, statusCode : {""}]
    \cup [kind : {"service"}, message : {<<>>}, statusCode : ServiceStatusCodes]

D1 == <<"service-deployment/", "d1">>

D2 == <<"service-deployment/", "d2">>

ListResponses ==
    [kind : {"error"}, message : PollErrorMessages, arns : {<<>>}]
    \cup [kind : {"ok"}, message : {<<>>}, arns : {<<>>, <<D1>>, <<D2, D1>>}]

\* status "" stands for a response without any deployment record
DeploymentResponses ==
    [kind : {"error"}, message : PollErrorMessages, arn : {<<>>}, status : {""}]
    \cup [kind : {"ok"}, message : {<<>>}, arn : {<<>>},
          status : {"", "IN_PROGRESS", "SUCCESSFUL", "FAILED", "STOPPED"}]

E1 == <<"https://one.example">>

E2 == <<"https://two.example">>

\* activeConfigurations: per configuration, the endpoints of its ingress paths
\* (an ingress path without endpoint has the empty endpoint)
Configurations ==
    {<<>>, << <<>>, <<E2>> >>, << <<<<>>, E2>> >>, << <<E1, E2>>, <<E2>> >>}

(***************************************************************************)
(* waitForServiceStable(): one iteration of the loop                       *)
(***************************************************************************)
\* faulty variant: the catch block no longer recognises the service status error
IsConclusiveDeploymentOnly(message) ==
    Includes(message, "FAILED") \/ Includes(message, "STOPPED")

\* the test of the catch block: is the caught error thrown again
IsConclusive(message) ==
    \/ Includes(message, "entered")
    \/ Includes(message, "FAILED")
    \/ Includes(message, "STOPPED")

\* faulty variant: the first configuration that has ingress paths is used
ExtractEndpointFirstWithPaths(configurations) ==
    IF \E i \in 1..Len(configurations) : Len(configurations[i]) > 0
    THEN LET i == CHOOSE k \in 1..Len(configurations) :
                      /\ Len(configurations[k]) > 0
                      /\ \A j \in 1..(k - 1) : Len(configurations[j]) = 0
         IN  configurations[i][1]
    ELSE <<>>

\* the endpoint the iteration that sees SUCCESSFUL hands to core.setOutput
ExtractEndpoint(configurations) ==
    IF /\ Len(configurations) > 0
       /\ Len(configurations[1]) > 0
       /\ configurations[1][1] # <<>>
    THEN configurations[1][1]
    ELSE <<>>

Sleeps(active, arn, t) ==
    [serviceActive |-> active, deploymentArn |-> arn, exit |-> "sleep",
     message |-> <<>>, endpoint |-> <<>>, tick |-> t]

Returns(active, arn, endpoint, t) ==
    [serviceActive |-> active, deploymentArn |-> arn, exit |-> "return",
     message |-> <<>>, endpoint |-> endpoint, tick |-> t]

\* an error reaches the catch block of the loop
Caught(active, arn, message, t) ==
    [serviceActive |-> active, deploymentArn |-> arn,
     exit |-> IF IsConclusive(message) THEN "throw" ELSE "sleep",
     message |-> message, endpoint |-> <<>>, tick |-> t]

ServiceEnteredMessage(statusCode) == <<"Service", "entered", statusCode, "state">>

\* faulty variant: the message names the deployment but not its status
DeploymentMessageNoStatus(arn, status) == <<"Deployment">> \o arn \o <<"ended">>

DeploymentMessage(arn, status) == <<"Deployment">> \o arn \o <<status>>

\* faulty variant: the deployment is looked at whatever the service's status
IsActiveOrPending(statusCode) == statusCode \notin {"INACTIVE", "DRAINING"}

\* if (statusCode === 'ACTIVE')
IsActive(statusCode) == statusCode = "ACTIVE"

\* faulty variant: the deployment is resolved anew in every iteration
NeedsListingAlways(pinned) == TRUE

\* if (!deploymentArn): the deployments are listed while none is pinned
NeedsListing(pinned) == pinned = <<>>

\* faulty variant: a deployment still in progress counts as complete
IsCompleteOrInProgress(status) == status \in {"SUCCESSFUL", "IN_PROGRESS"}

\* if (deployment.status === 'SUCCESSFUL')
IsComplete(status) == status = "SUCCESSFUL"

\* the body of the try block for the answers svc, list, dep of the platform
Iteration(active, pinned, svc, list, dep, configurations) ==
    LET t1 == [NoTick EXCEPT !.calls = <<"DescribeExpressGatewayService">>,
                             !.svc = svc]
    IN  IF svc.kind = "error" THEN Caught(active, pinned, svc.message, t1)
        ELSE IF svc.kind = "empty" THEN Sleeps(active, pinned, t1)
        ELSE IF svc.statusCode \in {"INACTIVE", "DRAINING"}
        THEN Caught(active, pinned, ServiceEnteredMessage(svc.statusCode), t1)
        ELSE IF ~IsActive(svc.statusCode) THEN Sleeps(active, pinned, t1)
        ELSE
          LET listed == NeedsListing(pinned)
              t2 == IF listed
                    THEN [t1 EXCEPT !.calls = Append(@, "ListServiceDeployments"),
                                    !.list = list]
                    ELSE t1
              arn == IF listed /\ list.kind = "ok" /\ Len(list.arns) > 0
                     THEN list.arns[1]
                     ELSE pinned
              t3 == [t2 EXCEPT !.calls = Append(@, "DescribeServiceDeployments"),
                               !.dep = [dep EXCEPT !.arn = arn]]
          IN  IF arn = <<>> THEN Sleeps(TRUE, arn, t2)
              ELSE IF dep.kind = "error" THEN Caught(TRUE, arn, dep.message, t3)
              ELSE IF dep.status = "" THEN Sleeps(TRUE, arn, t3)
              ELSE IF dep.status \in {"FAILED", "STOPPED"}
              THEN Caught(TRUE, arn, DeploymentMessage(arn, dep.status), t3)
              ELSE IF IsComplete(dep.status)
              THEN Returns(TRUE, arn, ExtractEndpoint(configurations),
                           [t3 EXCEPT !.activeConfigurations = configurations])
              ELSE Sleeps(TRUE, arn, t3)

\* faulty variant: the loop has no ceiling
TimedOutNever == FALSE

\* Date.now() - startTime > maxWaitMs
TimedOut == now - startTime > maxWaitMs

runVars == <<inputs, region, serviceArn, serviceExists, describeResponse,
             request, response, deploymentStartTime, finalServiceArn, calls,
             remoteTags, remote, invocations, tagging>>

\* the loop finds the ceiling exceeded: warning, break, run() ends normally
PollTimeout ==
    /\ pc = "poll"
    /\ TimedOut
    /\ pollExit' = "break"
    /\ tick' = NoTick
    /\ pc' = "done"
    /\ UNCHANGED <<now, startTime, serviceActive, deploymentArn, outputs, failed>>
    /\ UNCHANGED runVars

\* one iteration of the loop, up to its sleep, return or throw
PollTick ==
    /\ pc = "poll"
    /\ ~TimedOut
    /\ \E svc \in DescribeServiceResponses, latency \in Latencies :
       \E list \in IF svc.statusCode = "ACTIVE" /\ deploymentArn = <<>>
                   THEN ListResponses ELSE {NoTick.list} :
       \E dep \in IF svc.statusCode = "ACTIVE"
                     /\ (deploymentArn # <<>> \/ list.arns # <<>>)
                  THEN DeploymentResponses ELSE {NoTick.dep} :
       \E configurations \in IF IsComplete(dep.status)
                             THEN Configurations ELSE {<<>>} :
         LET r == Iteration(serviceActive, deploymentArn, svc, list, dep,
                            configurations)
         IN  /\ serviceActive' = r.serviceActive
             /\ deploymentArn' = r.deploymentArn
             /\ tick' = IF Includes(r.tick.calls, "ListServiceDeployments")
                        THEN [r.tick EXCEPT !.listRequest =
                                 ListRequest(finalServiceArn, deploymentStartTime)]
                        ELSE r.tick
             /\ IF r.exit = "sleep"
                THEN /\ now' = now + latency + pollIntervalSeconds * 1000
                     /\ UNCHANGED <<pc, pollExit, outputs, failed>>
                ELSE IF r.exit = "return"
                THEN /\ pollExit' = "return"
                     /\ outputs' = IF r.endpoint # <<>>
                                   THEN Append(outputs, <<"endpoint", r.endpoint>>)
                                   ELSE outputs
                     /\ pc' = "done"
                     /\ UNCHANGED <<now, failed>>
                ELSE /\ pollExit' = "throw"
                     /\ Fail(r.message)
                     /\ UNCHANGED <<now, outputs>>
    /\ UNCHANGED startTime
    /\ UNCHANGED runVars

(***************************************************************************)
(* The invocation                                                          *)
(***************************************************************************)
Init ==
    /\ inputs \in
         { WithInputs(("service-name" :> sn) @@ ("image" :> im)
                      @@ ("execution-role-arn" :> er)
                      @@ ("infrastructure-role-arn" :> ir) @@ opt)
           : sn \in ServiceNames, im \in Images, er \in ExecutionRoles,
             ir \in InfrastructureRoles, opt \in OptionalInputs }
    /\ region \in Regions
    /\ pc = "start"
    /\ now = 0
    /\ serviceArn = <<>>
    /\ serviceExists = FALSE
    /\ describeResponse = NoDescribe
    /\ request = NoRequest
    /\ response = NoMutation
    /\ deploymentStartTime = 0
    /\ finalServiceArn = <<>>
    /\ startTime = 0
    /\ serviceActive = FALSE
    /\ deploymentArn = <<>>
    /\ pollExit = "none"
    /\ tick = NoTick
    /\ calls = [DescribeServices |-> 0, Create |-> 0, Update |-> 0]
    /\ remoteTags = <<>>
    /\ tagging = NoTagging
    /\ remote = Untracked
    /\ invocations = <<>>
    /\ outputs = <<>>
    /\ failed = <<>>

Next ==
    \/ ValidateInputs
    \/ CheckServiceExists
    \/ Dispatch
    \/ PollTimeout
    \/ PollTick

Spec == Init /\ [][Next]_vars

\* the invocations of the default cluster with no environment variable: the
\* loop reads neither input
InitLive ==
    /\ Init
    /\ inputs["cluster"] = <<>>
    /\ inputs["environment-variables"] = <<>>

\* the invocation when every remote call returns and every sleep ends: an
\* iteration of the loop that can be taken is taken
SpecLive ==
    InitLive /\ [][Next]_vars /\ WF_vars(PollTick) /\ WF_vars(PollTimeout)

(***************************************************************************)
(* run() up to the call of waitForServiceStable, over more inputs          *)
(***************************************************************************)
\* an execution role of another partition
ChinaRole ==
    <<"arn", ":", "aws-cn", ":", "iam", ":", ":", "999999999999", ":", "role/exec">>

\* an execution role that ends with its account segment
BareRole == <<"arn", ":", "aws", ":", "iam", ":", ":", "123456789012">>

DeployRegions == {<<"us-east-1">>, <<"eu-west-1">>}

RequiredInputs ==
    ("service-name" :> <<"svc">>) @@ ("image" :> <<"img">>)
    @@ ("execution-role-arn" :> ExecutionRole)
    @@ ("infrastructure-role-arn" :> InfrastructureRole)

\* inputs that vary what the service ARN is made of
ArnInputs ==
    { WithInputs(("service-name" :> sn) @@ ("execution-role-arn" :> er)
                 @@ ("cluster" :> cl) @@ RequiredInputs)
      : sn \in {<<"svc">>, <<"my-app">>},
        er \in {ExecutionRole, ChinaRole, BareRole, ShortRole},
        cl \in {<<>>, <<"prod">>, <<"default">>} }

TagsJSON ==
    <<"[", "{", "B", ":", "2", "}", ",", " ", "{", "C", ":", "3", "}", "]">>

TagsMultiline == <<"B", "=", "2", "\n", " ", "C", " ", "=", " ", "3", "\n">>

\* every optional input supplied
FullInputs ==
    ("cluster" :> <<"prod">>)
    @@ ("container-port" :> <<"8", "0", "8", "0">>)
    @@ ("environment-variables" :> <<"[", "NAME=v", "]">>)
    @@ ("secrets" :> <<"[", "TOKEN", ",", "KEY", "]">>)
    @@ ("command" :> <<"[", "run", "]">>)
    @@ ("log-group" :> <<"/ecs/app">>)
    @@ ("log-stream-prefix" :> <<"app">>)
    @@ ("repository-credentials" :> <<"secret-arn">>)
    @@ ("tags" :> TagsJSON)
    @@ ("cpu" :> <<"1", "0", "2", "4">>)
    @@ ("memory" :> <<"2", "0", "4", "8">>)
    @@ ("task-role-arn" :> <<"task-role">>)
    @@ ("subnets" :> <<"subnet-a", ",", " ", "subnet-b">>)
    @@ ("security-groups" :> <<"sg-1", ",", "sg-2">>)
    @@ ("health-check-path" :> <<"/health">>)
    @@ ("min-task-count" :> <<"1">>)
    @@ ("max-task-count" :> <<"1", "0">>)
    @@ ("auto-scaling-metric" :> <<"CPU">>)
    @@ ("auto-scaling-target-value" :> <<"7", "0", ".", "5", "0">>)

\* every optional input but the cluster consists of white space
BlankInputs ==
    [name \in InputNames \ {"service-name", "image", "execution-role-arn",
                            "infrastructure-role-arn", "cluster"} |-> <<" ">>]

OptionalProfiles ==
    { FullInputs,
      BlankInputs,
      ("security-groups" :> <<"sg-1">>),
      ("subnets" :> <<" ", ",", " ">>) @@ ("security-groups" :> <<"sg-1">>),
      ("subnets" :> <<"subnet-a">>) @@ ("security-groups" :> <<",">>)
          @@ ("log-group" :> <<"/ecs/app">>) @@ ("min-task-count" :> <<"2">>),
      ("container-port" :> <<"a", "b", "c">>) @@ ("tags" :> TagsMultiline)
          @@ ("auto-scaling-target-value" :> <<".", "5">>)
          @@ ("log-stream-prefix" :> <<"app">>),
      ("container-port" :> <<" ", "4", "2", "x">>) @@ ("tags" :> <<"[", "]">>)
          @@ ("max-task-count" :> <<"3", ".", "9">>)
          @@ ("auto-scaling-metric" :> <<"CPU">>) @@ ("cpu" :> <<"2", "5", "6">>),
      ("secrets" :> <<"[", "TOKEN">>),
      ("tags" :> <<"B", "\n", "C", "=", "3">>),
      ("min-task-count" :> <<"5">>) @@ ("max-task-count" :> <<"2">>),
      ("environment-variables" :> <<"[", "NAME=v">>)
          @@ ("tags" :> <<"[", "{", "B", ":", "2", "}">>),
      ("command" :> <<"run", "]">>) @@ ("secrets" :> <<"[", "TOKEN", "]">>),
      ("tags" :> <<"[", "{", "B", ":", "2", "}">>)
          @@ ("mutate-tags-on-update" :> <<"true">>) }

ConfigInputs == { WithInputs(opt @@ RequiredInputs) : opt \in OptionalProfiles }

\* tag texts in the key=value format, one tag to the line
TagTexts ==
    { <<"A", "=", "1", "\n", "\n", " ", "\n", "B", "=">>,
      <<" ", "C", " ", "=", "3", "\n", "A", "=", "x", "=", "y", " ">>,
      <<"=", "v">>,
      <<"A", "=", "1", "\n", " ", "=", " ", "\n", "B">>,
      <<"A", "=", "1", "\n", "B", " ", "\n", "=", "v">>,
      <<"\n", "A", "=", "1", "\n", "A", "=", "2">>,
      <<"b", " ", "[", "=", "1">> }

TagTextInputs == { WithInputs(("tags" :> text) @@ RequiredInputs) : text \in TagTexts }

\* inputs that vary the desired tags and the request to mutate tags
TagInputs ==
    { WithInputs(("tags" :> tags) @@ ("mutate-tags-on-update" :> mutate)
                 @@ RequiredInputs)
      : tags \in {<<>>, TagsJSON, TagsMultiline, <<"[", "]">>},
        mutate \in {<<>>, <<"true">>, <<"false">>} }

Tag(key, value) == [key |-> <<key>>, value |-> <<value>>]

\* the tags the tag lists given in both formats are made of
TagPool == {Tag("A", "1"), Tag("B", "2"), [key |-> <<"B">>, value |-> <<>>]}

LogicalTagLists == UNION {[1..n -> TagPool] : n \in 0..MaxTags}

RECURSIVE Concat(_)
Concat(seqs) == IF seqs = <<>> THEN <<>> ELSE Head(seqs) \o Concat(Tail(seqs))

\* the tags as a JSON array of {key, value} objects
ToJSON(list) ==
    <<"[">>
    \o Concat([i \in 1..Len(list) |->
                  (IF i > 1 THEN <<",", " ">> ELSE <<>>)
                  \o <<"{">> \o list[i].key \o <<":">> \o list[i].value \o <<"}">>])
    \o <<"]">>

\* the tags as key=value lines
ToMultiline(list) ==
    Concat([i \in 1..Len(list) |-> list[i].key \o <<"=">> \o list[i].value \o <<"\n">>])

\* the same tags given as a JSON array and as key=value lines
FormatInputs ==
    { WithInputs(("tags" :> text) @@ RequiredInputs)
      : text \in UNION {{ToJSON(list), ToMultiline(list)} : list \in LogicalTagLists} }

\* the tags the service may have on the platform before the invocation
RemoteTagSets ==
    { <<>>,
      <<Tag("A", "1"), Tag("B", "2")>>,
      <<Tag("C", "3"), Tag("B", "2")>>,
      <<Tag("B", "9"), Tag("D", "4")>> }

\* inputs with one required input left out or blank
BlankRequiredInputs ==
    { WithInputs([RequiredInputs EXCEPT ![name] = blank])
      : name \in DOMAIN RequiredInputs, blank \in {<<>>, <<" ">>} }

InitDeploy ==
    /\ inputs \in ArnInputs \cup ConfigInputs \cup TagInputs \cup TagTextInputs
                   \cup FormatInputs \cup BlankRequiredInputs
    /\ region \in DeployRegions
    /\ pc = "start"
    /\ now = 0
    /\ serviceArn = <<>>
    /\ serviceExists = FALSE
    /\ describeResponse = NoDescribe
    /\ request = NoRequest
    /\ response = NoMutation
    /\ deploymentStartTime = 0
    /\ finalServiceArn = <<>>
    /\ startTime = 0
    /\ serviceActive = FALSE
    /\ deploymentArn = <<>>
    /\ pollExit = "none"
    /\ tick = NoTick
    /\ calls = [DescribeServices |-> 0, Create |-> 0, Update |-> 0]
    /\ remoteTags \in RemoteTagSets
    /\ tagging = NoTagging
    /\ remote = Untracked
    /\ invocations = <<>>
    /\ outputs = <<>>
    /\ failed = <<>>

NextDeploy ==
    \/ ValidateInputs
    \/ CheckServiceExists
    \/ ReconcileTags
    \/ Dispatch

SpecDeploy == InitDeploy /\ [][NextDeploy]_vars

(***************************************************************************)
(* The poller's state in the words of the design                           *)
(***************************************************************************)
PollerState ==
    IF pollExit = "return" THEN "STABLE"
    ELSE IF pollExit = "throw" THEN "FAILED"
    ELSE IF pollExit = "break" THEN "TIMED_OUT"
    ELSE IF pc # "poll" THEN "NOT_STARTED"
    ELSE IF deploymentArn # <<>> THEN "WAITING_DEPLOYMENT_TERMINAL"
    ELSE IF serviceActive THEN "LOCATING_DEPLOYMENT"
    ELSE "WAITING_SERVICE_ACTIVE"

EndpointOutputs == SelectSeq(outputs, LAMBDA o : o[1] = "endpoint")

NoRemoteCall ==
    /\ calls = [DescribeServices |-> 0, Create |-> 0, Update |-> 0]
    /\ tagging.calls = <<>>
    /\ tick.calls = <<>>

(***************************************************************************)
(* Claims                                                                  *)
(***************************************************************************)

\* C1: once the wait ceiling is exceeded the poller ends in TIMED_OUT and the
\* invocation is reported as failed; a timed-out wait never ends as a success.
C1_TimeoutIsReportedAsFailure ==
    PollerState = "TIMED_OUT" => failed # <<>>

C3_BadDeploymentStatusFails ==
    tick.dep.status \in {"FAILED", "STOPPED"} =>
        /\ PollerState = "FAILED"
        /\ pc = "done"
        /\ tick.dep.arn = deploymentArn
        /\ Len(failed) = 1
        /\ Includes(failed[1], tick.dep.status)
        /\ \A i \in 1..Len(deploymentArn) : Includes(failed[1], deploymentArn[i])

C3_Witness ==
    /\ tick.dep.status = "STOPPED"
    /\ tick.dep.arn = D2
    /\ PollerState = "FAILED"
    /\ now - startTime >= 2 * pollIntervalSeconds * 1000

\* C4: an error raised by a remote query of a poll tick never ends the poller,
\* whatever its message text.
C4_QueryErrorNeverEndsPoller ==
    (tick.svc.kind = "error" \/ tick.list.kind = "error" \/ tick.dep.kind = "error")
        => PollerState # "FAILED"

\* what holds of every state of a run of the poller (part of C5)
C5_StableState ==
    /\ tick.dep.status = "SUCCESSFUL" => PollerState = "STABLE"
    /\ PollerState = "STABLE" =>
         /\ failed = <<>>
         /\ tick.svc.statusCode = "ACTIVE"
         /\ tick.dep.status = "SUCCESSFUL"
         /\ LET c == tick.activeConfigurations
            IN  EndpointOutputs =
                  IF Len(c) > 0 /\ Len(c[1]) > 0 /\ c[1][1] # <<>>
                  THEN << <<"endpoint", c[1][1]>> >>
                  ELSE <<>>
    /\ tick.svc.statusCode = "ACTIVE" => serviceActive
    /\ tick.list.arns # <<>> => deploymentArn = tick.list.arns[1]
    /\ PollerState = "FAILED" =>
         \/ tick.svc.kind = "error"
         \/ tick.dep.kind = "error"
         \/ tick.svc.statusCode \in {"INACTIVE", "DRAINING"}
         \/ tick.dep.status \in {"FAILED", "STOPPED"}

\* between two ticks the poller sleeps one cadence (part of C5)
C5_SleepsOneCadence ==
    (pc = "poll" /\ pc' = "poll") => now' >= now + pollIntervalSeconds * 1000

\* C5: with answers of the scripted form the poller reaches STABLE without a
\* failure: a SUCCESSFUL deployment on an ACTIVE service ends it in STABLE, the
\* endpoint output is the first ingress path's endpoint of the first active
\* configuration, ACTIVE and a non-empty listing move it on (the first listed
\* deployment is pinned), it fails only on a tick that saw an error or a bad
\* status, and it sleeps one cadence between two ticks.
C5_ScriptedRunReachesStable == []C5_StableState /\ [][C5_SleepsOneCadence]_vars

C5_Witness ==
    /\ PollerState = "STABLE"
    /\ EndpointOutputs = << <<"endpoint", E1>> >>
    /\ tick.activeConfigurations = << <<E1, E2>>, <<E2>> >>
    /\ now - startTime >= 3 * pollIntervalSeconds * 1000

\* C6: the service is classified as existing exactly when the describe query
\* returned a record whose status is not INACTIVE; run() then sends update with
\* the constructed ARN and the whole configuration if it is classified as
\* existing, and create with the configuration and no ARN otherwise.
C6_ExistenceDecidesTheCall ==
    /\ pc = "dispatch" =>
         serviceExists =
            /\ describeResponse.kind = "ok"
            /\ \E i \in 1..Len(describeResponse.services) :
                   describeResponse.services[i].status # "INACTIVE"
    /\ (pc \in {"poll", "done"} /\ calls.DescribeServices = 1
            /\ describeResponse.kind = "none" /\ BuildError(inputs) = <<>>)
         => request.op # "none"
    /\ request.op # "none" =>
         /\ \A f \in DOMAIN BuildServiceConfig(inputs) :
               /\ f \in DOMAIN request.params
               /\ request.params[f] = BuildServiceConfig(inputs)[f]
         /\ IF serviceExists
            THEN /\ request.op = "Update"
                 /\ calls.Update = 1 /\ calls.Create = 0
                 /\ DOMAIN request.params =
                        DOMAIN BuildServiceConfig(inputs) \cup {"serviceArn"}
                 /\ request.params["serviceArn"] = serviceArn
            ELSE /\ request.op = "Create"
                 /\ calls.Create = 1 /\ calls.Update = 0
                 /\ DOMAIN request.params = DOMAIN BuildServiceConfig(inputs)

C6_Witness ==
    /\ request.op = "Create"
    /\ calls.DescribeServices = 1
    /\ inputs["cluster"] = <<"prod">>
    /\ pc = "poll"

\* a not-found error leaves run() before the command, unfailed (part of C7)
C7_NotFoundState ==
    (describeResponse.kind = "error"
        /\ describeResponse.error.name \in
              {"ServiceNotFoundException", "ClusterNotFoundException"})
    => (pc = "dispatch" /\ ~serviceExists /\ failed = <<>>)

\* the step that follows a not-found error (part of C7)
C7_NotFoundStep ==
    (pc = "dispatch" /\ describeResponse.kind = "error") =>
        /\ calls'.Update = 0
        /\ BuildError(inputs) = <<>> =>
              (request'.op = "Create" /\ calls'.Create = 1)
        /\ \A i \in 1..Len(failed') : failed'[i] # describeResponse.error.message

\* C7: a service-not-found or cluster-not-found error of the existence query
\* classifies the service as not existing and is no failure: run() goes on and,
\* the configuration being well-formed, sends create; the invocation never
\* fails with that error's message.
C7_NotFoundMeansCreate == []C7_NotFoundState /\ [][C7_NotFoundStep]_vars

C7_Witness ==
    /\ describeResponse.kind = "error"
    /\ describeResponse.error.name = "ClusterNotFoundException"
    /\ pc = "dispatch"

BlankRequired ==
    {f \in {"image", "execution-role-arn", "infrastructure-role-arn"} :
        IsBlank(inputs[f])}

\* C9: if image, execution-role-arn or infrastructure-role-arn is blank, the
\* invocation fails before any remote call and the message names that missing
\* field, whatever the other inputs are (service-name supplied or not).
C9_MissingRequiredIsNamed ==
    (BlankRequired # {} /\ pc # "start") =>
        /\ pc = "done"
        /\ NoRemoteCall
        /\ Len(failed) = 1
        /\ \E f \in BlankRequired : failed[1] = RequiredMessage(f)

\* C10: with a blank service-name (and the three required inputs supplied) the
\* invocation does not fail for the missing name: it sends no existence query,
\* classifies the service as not existing and sends create.
C10_BlankServiceNameCreates ==
    (IsBlank(inputs["service-name"]) /\ BlankRequired = {}
        /\ ArnFormatMessage(inputs) = <<>> /\ pc # "start") =>
        /\ calls.DescribeServices = 0
        /\ ~serviceExists
        /\ \A i \in 1..Len(failed) : failed[i] # RequiredMessage("service-name")
        /\ pc = "done" => (request.op = "Create" \/ failed # <<>>)

MutatingCalls == calls.Create + calls.Update

\* C12: one invocation sends at most one mutating call, one create or one
\* update and never both; a create or update that fails is not sent again: its
\* failure ends the invocation, which is reported as failed and does not poll.
C12_AtMostOneMutatingCall ==
    /\ MutatingCalls <= 1
    /\ MutatingCalls = 1 <=> request.op # "none"
    /\ response.kind = "error" =>
         /\ MutatingCalls = 1
         /\ pc = "done"
         /\ Len(failed) = 1
         /\ tick.calls = <<>>
         /\ pollExit = "none"

C12_Witness ==
    /\ response.kind = "error"
    /\ response.error.name = "ThrottlingException"
    /\ request.op = "Update"
    /\ pc = "done"

ServiceArnOutputs == SelectSeq(outputs, LAMBDA o : o[1] = "service-arn")

\* once the command has succeeded the output is there (part of C13)
C13_OutputState ==
    /\ response.kind = "ok" =>
         /\ finalServiceArn # <<>>
         /\ outputs # <<>>
         /\ outputs[1] = <<"service-arn", finalServiceArn>>
    /\ (tick.calls # <<>> \/ pollExit # "none") => response.kind = "ok"

\* a step that sends a stabilization query starts with the output set (part of C13)
C13_OutputStep ==
    tick'.calls # <<>> => (outputs # <<>> /\ outputs[1][1] = "service-arn")

\* C13: whenever create or update succeeds, the service-arn output is set
\* before the first stabilization query is sent, so it is present in every run
\* that ends in a stabilization failure or in the timeout.
C13_ServiceArnOutputPrecedesPolling ==
    []C13_OutputState /\ [][C13_OutputStep]_vars

C13_Witness ==
    /\ pollExit = "break"
    /\ response.serviceArn = <<>>
    /\ outputs = << <<"service-arn", serviceArn>> >>

\* C14: the resulting identity, which is the value of the service-arn output
\* and the ARN handed to the poller, is the ARN of the create/update response
\* when the response has one and the constructed ARN otherwise.
C14_ResultingIdentity ==
    response.kind = "ok" =>
        /\ finalServiceArn = IF response.serviceArn # <<>>
                             THEN response.serviceArn
                             ELSE serviceArn
        /\ ServiceArnOutputs = << <<"service-arn", finalServiceArn>> >>

C14_Witness ==
    /\ response.serviceArn = ServerArn
    /\ serviceArn # ServerArn
    /\ ServiceArnOutputs = << <<"service-arn", ServerArn>> >>
    /\ tick.calls # <<>>

\* C15: an error of the create or update call is translated by its name:
\* access-denied into a message with guidance on the IAM role permissions,
\* invalid-parameter into one that says to check the input values,
\* cluster-not-found into one that names the cluster and suggests checking the
\* region; any other error keeps its message.  In every case the invocation
\* fails and no stabilization query is sent.
C15_MutationErrorIsTranslated ==
    response.kind = "error" =>
        /\ pc = "done"
        /\ Len(failed) = 1
        /\ tick.calls = <<>>
        /\ pollExit = "none"
        /\ CASE response.error.name = "AccessDeniedException" ->
                  Includes(failed[1],
                      "Please check that the IAM roles have the necessary permissions")
             [] response.error.name = "InvalidParameterException" ->
                  Includes(failed[1], "Please check your input values.")
             [] response.error.name = "ClusterNotFoundException" ->
                  /\ Includes(failed[1], "Please check the cluster name and region.")
                  /\ \A i \in 1..Len(ClusterName(inputs)) :
                        Includes(failed[1], ClusterName(inputs)[i])
             [] OTHER -> failed[1] = response.error.message

C15_Witness ==
    /\ response.kind = "error"
    /\ response.error.name = "ClusterNotFoundException"
    /\ inputs["cluster"] = <<"prod">>
    /\ pc = "done"

\* C16: whenever a remote call of the invocation, the existence check
\* included, raises AccessDeniedException, the failure message gives guidance
\* about checking the IAM role permissions.
C16_AccessDeniedGivesGuidance ==
    (\/ describeResponse.kind = "error"
          /\ describeResponse.error.name = "AccessDeniedException"
     \/ response.kind = "error" /\ response.error.name = "AccessDeniedException")
    => /\ failed # <<>>
       /\ Includes(failed[1],
              "Please check that the IAM roles have the necessary permissions")

\* C17: for every region, cluster, service name and execution-role ARN that has
\* an account segment, the constructed service ARN is exactly
\* arn:aws:ecs:<region>:<accountId>:service/<cluster>/<serviceName>, where
\* accountId is the text between the fourth colon of the execution-role ARN and
\* the next one (or the end) and cluster is "default" when the cluster input is
\* empty; it is a function of these inputs alone and never changes afterwards.
C17_ServiceArnIsTheConcatenation ==
    LET role == inputs["execution-role-arn"]
        colons == {i \in 1..Len(role) : role[i] = ":"}
    IN  (pc # "start" /\ Cardinality(colons) >= 4
           /\ \A name \in {"service-name", "image", "execution-role-arn",
                           "infrastructure-role-arn"} : Trim(inputs[name]) # <<>>)
        => LET fourth == CHOOSE i \in colons :
                             Cardinality({j \in colons : j < i}) = 3
               later == {j \in colons : j > fourth}
               last == IF later = {} THEN Len(role)
                       ELSE (CHOOSE j \in later : \A k \in later : j <= k) - 1
               cluster == IF inputs["cluster"] = <<>> THEN <<"default">>
                          ELSE inputs["cluster"]
           IN  serviceArn =
                 <<"arn", ":", "aws", ":", "ecs", ":">> \o region \o <<":">>
                    \o SubSeq(role, fourth + 1, last) \o <<":", "service/">>
                    \o cluster \o <<"/">> \o inputs["service-name"]

C17_Witness ==
    /\ inputs["execution-role-arn"] = ChinaRole
    /\ inputs["cluster"] = <<>>
    /\ serviceArn = <<"arn", ":", "aws", ":", "ecs", ":", "eu-west-1", ":",
                      "999999999999", ":", "service/", "default", "/", "my-app">>
    /\ request.op = "Update"

\* C18: in the specification sent with create or update, every optional field
\* whose input is blank is absent, and every optional field whose input is
\* present carries the value of the input: texts unchanged (cpu and memory
\* included), container port and min/max task count as base-10 integers, the
\* auto-scaling target value as a number, comma lists and JSON texts as their
\* elements.  (A cluster equal to "default" and a list without elements count
\* as blank.)
C18_OptionalFieldsFollowInputs ==
    request.op # "none" =>
      LET sent == request.params
          container == sent.primaryContainer
          Given(name) == Trim(inputs[name]) # <<>>
          Carries(object, field, given, value) ==
              IF given THEN field \in DOMAIN object /\ object[field] = value
              ELSE field \notin DOMAIN object
          Text(object, field, name) ==
              Carries(object, field, Given(name), inputs[name])
          network == IF "networkConfiguration" \in DOMAIN sent
                     THEN sent.networkConfiguration ELSE Absent
          logs == IF "awsLogsConfiguration" \in DOMAIN container
                  THEN container.awsLogsConfiguration ELSE Absent
          scaling == IF "scalingTarget" \in DOMAIN sent
                     THEN sent.scalingTarget ELSE Absent
          tags == IF Given("tags") THEN ParseTags(inputs["tags"]).tags ELSE <<>>
      IN  /\ Carries(container, "containerPort", Given("container-port"),
                     ParseInt(inputs["container-port"]))
          /\ Carries(container, "environment", Given("environment-variables"),
                     ParseJSON(inputs["environment-variables"]).items)
          /\ Carries(container, "secrets", Given("secrets"),
                     ParseJSON(inputs["secrets"]).items)
          /\ Carries(container, "command", Given("command"),
                     ParseJSON(inputs["command"]).items)
          /\ ("awsLogsConfiguration" \in DOMAIN container)
                <=> (Given("log-group") \/ Given("log-stream-prefix"))
          /\ Text(logs, "logGroup", "log-group")
          /\ Text(logs, "logStreamPrefix", "log-stream-prefix")
          /\ Carries(container, "repositoryCredentials",
                     Given("repository-credentials"),
                     [credentialsParameter |-> inputs["repository-credentials"]])
          /\ Text(sent, "cpu", "cpu")
          /\ Text(sent, "memory", "memory")
          /\ Text(sent, "taskRoleArn", "task-role-arn")
          /\ Text(sent, "healthCheckPath", "health-check-path")
          /\ Carries(sent, "cluster",
                     inputs["cluster"] \notin {<<>>, <<"default">>},
                     inputs["cluster"])
          /\ Carries(sent, "tags", tags # <<>>, tags)
          /\ ("networkConfiguration" \in DOMAIN sent)
                <=> (SplitList(inputs["subnets"]) # <<>>
                       \/ SplitList(inputs["security-groups"]) # <<>>)
          /\ Carries(network, "subnets", SplitList(inputs["subnets"]) # <<>>,
                     SplitList(inputs["subnets"]))
          /\ Carries(network, "securityGroups",
                     SplitList(inputs["security-groups"]) # <<>>,
                     SplitList(inputs["security-groups"]))
          /\ ("scalingTarget" \in DOMAIN sent)
                <=> (\E name \in ScalingInputs : Given(name))
          /\ Carries(scaling, "minTaskCount", Given("min-task-count"),
                     ParseInt(inputs["min-task-count"]))
          /\ Carries(scaling, "maxTaskCount", Given("max-task-count"),
                     ParseInt(inputs["max-task-count"]))
          /\ Text(scaling, "autoScalingMetric", "auto-scaling-metric")
          /\ Carries(scaling, "autoScalingTargetValue",
                     Given("auto-scaling-target-value"),
                     ParseFloat(inputs["auto-scaling-target-value"]))

\* without a request to mutate tags an update sends no tag call (part of C19)
C19_NoTagCall ==
    (serviceExists /\ inputs["mutate-tags-on-update"] # <<"true">>)
        => tagging.calls = <<>>

\* without a request to mutate tags no step of an update changes the tags
\* of the service (part of C19)
C19_TagsUntouched ==
    (serviceExists' /\ inputs["mutate-tags-on-update"] # <<"true">>)
        => remoteTags' = remoteTags

\* C19: on the update path, unless tag mutation was requested with
\* mutate-tags-on-update, the invocation sends no tag and no untag call and the
\* tags the service has are not changed by it, also when tags are supplied.
C19_NoTagMutationUnlessRequested ==
    []C19_NoTagCall /\ [][C19_TagsUntouched]_vars

C19_Witness ==
    /\ request.op = "Update"
    /\ inputs["tags"] = TagsJSON
    /\ inputs["mutate-tags-on-update"] = <<"false">>
    /\ remoteTags = <<Tag("A", "1"), Tag("B", "2")>>
    /\ pc = "poll"

\* the step of the reconciler: what it computes from the tags before the step
C20_ReconcilerStep ==
    (pc = "dispatch" /\ pc' # "dispatch" /\ serviceExists
        /\ inputs["mutate-tags-on-update"] = <<"true">>
        /\ BuildError(inputs) = <<>>)
    => LET Range(seq) == {seq[i] : i \in 1..Len(seq)}
           current == Range(remoteTags)
           desired == Range(DesiredTags(inputs))
           toRemove == tagging'.toRemove
           toAdd == tagging'.toAdd
       IN  /\ Range(toRemove) =
                {c.key : c \in {t \in current : \A d \in desired : d.key # t.key}}
           /\ Range(toAdd) = desired \ current
           /\ Cardinality(Range(toRemove)) = Len(toRemove)
           /\ Cardinality(Range(toAdd)) = Len(toAdd)
           /\ \A t \in current \cap desired :
                 t.key \notin Range(toRemove) /\ t \notin Range(toAdd)
           /\ (remoteTags = <<Tag("A", "1"), Tag("B", "2")>>
                  /\ desired = {Tag("B", "2"), Tag("C", "3")})
              => (toRemove = << <<"A">> >> /\ toAdd = <<Tag("C", "3")>>)

\* C20: when tag mutation is requested on the update path, the reconciler
\* computes toRemove = the keys of the current tags that are no keys of the
\* desired tags (no desired tags when the tags input is omitted) and toAdd = the
\* desired tags whose key and value are not among the current tags; a tag that
\* both sides have with the same value is in neither set (current {A:1, B:2},
\* desired {B:2, C:3}: toRemove = {A}, toAdd = {C:3}).
C20_TagDiff == [][C20_ReconcilerStep]_vars

C20_Witness ==
    /\ tagging.toRemove = << <<"A">> >>
    /\ tagging.toAdd = <<Tag("C", "3")>>
    /\ remoteTags = <<Tag("B", "2"), Tag("C", "3")>>
    /\ pc = "update"


\* the tag calls of a reconciliation that went through, and nothing sent after
\* them before the update (part of C21)
C21_TagCallsSent ==
    (pc = "update" \/ (request.op = "Update" /\ MutateTags(inputs)))
    => /\ tagging.calls =
            (IF tagging.toRemove # <<>>
             THEN <<[op |-> "UntagResource", resourceArn |-> serviceArn,
                     tagKeys |-> tagging.toRemove, tags |-> <<>>]>>
             ELSE <<>>)
            \o (IF tagging.toAdd # <<>>
                THEN <<[op |-> "TagResource", resourceArn |-> serviceArn,
                        tagKeys |-> <<>>, tags |-> tagging.toAdd]>>
                ELSE <<>>)
       /\ pc = "update"
            => /\ calls.Update = 0
               /\ calls.Create = 0
               /\ request = NoRequest

\* the step that follows the tag calls is the update call (part of C21)
C21_UpdateFollows ==
    pc = "update"
        => /\ request'.op = "Update"
           /\ request'.params.serviceArn = serviceArn
           /\ calls'.Update = 1
           /\ tagging' = tagging

\* C21: when tag mutation is requested on the update path, the tag calls sent
\* before the update call are one untag call with the keys of toRemove if and
\* only if toRemove is not empty, then one tag call with toAdd if and only if
\* toAdd is not empty; with both sets empty no tag call is sent; in every case
\* the update call is what follows.
C21_TagCallsBeforeUpdate == []C21_TagCallsSent /\ [][C21_UpdateFollows]_vars

C21_Witness ==
    /\ Len(tagging.calls) = 2
    /\ tagging.calls[1].op = "UntagResource"
    /\ tagging.calls[2].op = "TagResource"
    /\ request.op = "Update"
    /\ pc = "poll"

\* both sets empty: no tag call, and the update was sent
C21_WitnessNoChange ==
    /\ MutateTags(inputs)
    /\ remoteTags # <<>>
    /\ tagging = NoTagging
    /\ request.op = "Update"

\* C22: when the untag call or the tag call of the reconciliation fails, the
\* invocation fails with one message that names the tag failure (removal or
\* application) and carries the error's text, and neither the update call nor
\* any later call is sent.
C22_TagFailureIsFatal ==
    tagging.failure # "none"
    => /\ pc = "done"
       /\ Len(tagging.calls) >= 1
       /\ tagging.calls[Len(tagging.calls)].op =
            (IF tagging.failure = "untag" THEN "UntagResource" ELSE "TagResource")
       /\ tagging.failure = "untag" => Len(tagging.calls) = 1
       /\ failed =
            << <<IF tagging.failure = "untag" THEN "Tag removal failed:"
                 ELSE "Tag application failed:">> \o TagError.message >>
       /\ calls.Update = 0
       /\ calls.Create = 0
       /\ request = NoRequest
       /\ response = NoMutation
       /\ tick.calls = <<>>
       /\ outputs = <<>>

C22_Witness ==
    /\ tagging.failure = "tag"
    /\ Len(tagging.calls) = 2
    /\ failed = << <<"Tag application failed:", "Access denied for tagging">> >>
    /\ pc = "done"

\* the untag call failed: the tag call was not sent either
C22_WitnessUntag ==
    /\ tagging.failure = "untag"
    /\ failed = << <<"Tag removal failed:", "Access denied for tagging">> >>
    /\ pc = "done"


\* C23: waiting for stability is optional: with the input
\* wait-for-service-stability (wait-for-deployment) false the invocation sends
\* no stabilization query and is over right after the create/update call and
\* the service-arn output; the poller runs only when the flag is true.
C23_WaitIsOptional ==
    (\/ inputs["wait-for-service-stability"] = <<"false">>
     \/ inputs["wait-for-deployment"] = <<"false">>)
    => /\ pc # "poll"
       /\ tick.calls = <<>>
       /\ pollExit = "none"

\* the wait ceiling the inputs configure, in milliseconds
C24_ConfiguredWaitMs ==
    (IF Present(inputs["wait-for-minutes"])
     THEN ParseInt(inputs["wait-for-minutes"]).mantissa
     ELSE DefaultWaitMinutes) * 60 * 1000

\* C24: the wait ceiling of the poller is the duration configured with
\* wait-for-minutes (30 minutes when it is omitted): the poller keeps polling
\* while the elapsed time is within it and times out only once it is exceeded.
C24_CeilingIsConfigured ==
    pollExit = "break" => now - startTime > C24_ConfiguredWaitMs

\* C25: every invocation that ends in STABLE has set the output status to the
\* status code of the service, next to service-arn and endpoint.
C25_StatusOutput ==
    PollerState = "STABLE"
    => \E i \in 1..Len(outputs) :
          /\ outputs[i][1] = "status"
          /\ outputs[i][2] = tick.svc.statusCode


\* the JSON inputs in the order run() parses them
C26_JSONFields == <<"environment-variables", "secrets", "command">>

\* a field holds text that does not parse
C26_Malformed(f) ==
    /\ Present(inputs[f])
    /\ IF f = "tags" THEN ~ParseTags(inputs[f]).ok ELSE ~ParseJSON(inputs[f]).ok

C26_MalformedArn == Len(Split(inputs["execution-role-arn"], ":")) < 5

\* C26 as stated: malformed JSON in environment-variables, secrets or command,
\* malformed tag text or a malformed execution-role ARN fails the invocation
\* before any remote call, the existence query included.
C26_ValidationIsPreflight ==
    (\/ C26_MalformedArn
     \/ \E f \in {"environment-variables", "secrets", "command", "tags"} :
           C26_Malformed(f))
    => NoRemoteCall

\* the order run() keeps instead: a malformed execution-role ARN fails the
\* invocation before any remote call; malformed JSON in environment-variables,
\* secrets or command and malformed tag text fail it after the existence query
\* and before any create or update call and any stabilization query, with a
\* message that names the first offending field and carries the parse error's
\* text.
C26_ValidationPrecedesMutation ==
    /\ C26_MalformedArn =>
         /\ NoRemoteCall
         /\ pc \in {"start", "done"}
         /\ pc = "done" =>
              failed = << <<"Invalid execution-role-arn format:">>
                             \o inputs["execution-role-arn"] >>
    /\ (~C26_MalformedArn
          /\ \E f \in {"environment-variables", "secrets", "command", "tags"} :
                C26_Malformed(f))
       => /\ request = NoRequest
          /\ calls.Create = 0
          /\ calls.Update = 0
          /\ tick.calls = <<>>
          /\ pc # "poll"
          /\ outputs = <<>>
          /\ (pc = "done" /\ calls.DescribeServices = 1
                /\ describeResponse.kind = "none")
             => /\ failed # <<>>
                /\ \A i \in 1..Len(failed) :
                     IF \E k \in 1..3 : C26_Malformed(C26_JSONFields[k])
                     THEN LET k == CHOOSE k \in 1..3 :
                                     /\ C26_Malformed(C26_JSONFields[k])
                                     /\ \A j \in 1..(k - 1) :
                                           ~C26_Malformed(C26_JSONFields[j])
                              f == C26_JSONFields[k]
                          IN  failed[i] = <<"Invalid", f, "JSON:">>
                                             \o ParseJSON(inputs[f]).error
                     ELSE failed[i] = <<"Tag parsing failed:">>
                                         \o ParseTags(inputs["tags"]).error

\* malformed JSON noticed after the existence query found the service
C26_Witness ==
    /\ pc = "done"
    /\ calls.DescribeServices = 1
    /\ serviceExists
    /\ inputs["tags"] = <<"[", "{", "B", ":", "2", "}">>
    /\ failed = << <<"Invalid", "environment-variables", "JSON:",
                     "Unexpected end of JSON input">> >>

\* malformed tag text noticed after the existence query
C26_WitnessTags ==
    /\ pc = "done"
    /\ calls.DescribeServices = 1
    /\ describeResponse.kind = "none"
    /\ inputs["tags"] = <<"B", "\n", "C", "=", "3">>
    /\ Len(failed) >= 1
    /\ failed[1] = <<"Tag parsing failed:", "Invalid tag format:", "B",
                     "Expected format: key=value">>

\* a malformed execution-role ARN: no remote call at all
C26_WitnessArn ==
    /\ pc = "done"
    /\ inputs["execution-role-arn"] = ShortRole
    /\ failed = << <<"Invalid execution-role-arn format:">> \o ShortRole >>


\* run() has got as far as building the configuration
C27_ConfigurationBuilt ==
    /\ pc \in {"poll", "done"}
    /\ calls.DescribeServices = 1
    /\ describeResponse.kind = "none"

\* the tags input is text for the line-by-line parser
C27_IsLineText ==
    /\ Present(inputs["tags"])
    /\ Head(Trim(inputs["tags"])) # "["

\* the non-blank lines of the tags input, trimmed, in the order of the input
C27_Lines ==
    LET lines == Split(inputs["tags"], "\n")
    IN  SelectSeq([i \in 1..Len(lines) |-> Trim(lines[i])], LAMBDA l : l # <<>>)

\* the position of the first "=" of a line that has one
C27_FirstEqual(line) ==
    CHOOSE k \in 1..Len(line) : line[k] = "=" /\ \A j \in 1..(k - 1) : line[j] # "="

C27_HasEqual(line) == \E k \in 1..Len(line) : line[k] = "="

C27_Key(line) == Trim(SubSeq(line, 1, C27_FirstEqual(line) - 1))

C27_Value(line) == Trim(SubSeq(line, C27_FirstEqual(line) + 1, Len(line)))

C27_Offends(line) == ~C27_HasEqual(line) \/ C27_Key(line) = <<>>

\* C27: tag text that does not start with "[" after trimming is parsed line by
\* line: blank lines are skipped, each other line is split at its first "=" into
\* a trimmed key and a trimmed value, an empty value is legal, a line without
\* "=" fails naming the line, a line with an empty key fails, and the list of
\* tags keeps the order of the lines.
C27_LineByLineTags ==
    (C27_IsLineText /\ C27_ConfigurationBuilt
        /\ \A f \in {"environment-variables", "secrets", "command"} :
              ~Present(inputs[f]) \/ ParseJSON(inputs[f]).ok)
    => IF \E i \in 1..Len(C27_Lines) : C27_Offends(C27_Lines[i])
       THEN LET i == CHOOSE i \in 1..Len(C27_Lines) :
                        /\ C27_Offends(C27_Lines[i])
                        /\ \A j \in 1..(i - 1) : ~C27_Offends(C27_Lines[j])
                line == C27_Lines[i]
            IN  /\ request = NoRequest
                /\ failed # <<>>
                /\ failed[1] =
                     IF ~C27_HasEqual(line)
                     THEN <<"Tag parsing failed:", "Invalid tag format:">> \o line
                              \o <<"Expected format: key=value">>
                     ELSE <<"Tag parsing failed:", "Empty tag key in line:">>
                              \o line
       ELSE /\ request.op # "none"
            /\ "tags" \in DOMAIN request.params
            /\ request.params.tags =
                 [i \in 1..Len(C27_Lines) |->
                     [key |-> C27_Key(C27_Lines[i]),
                      value |-> C27_Value(C27_Lines[i])]]

\* blank lines skipped and an empty value: "A=1", two blank lines, "B="
C27_Witness ==
    /\ inputs["tags"] = <<"A", "=", "1", "\n", "\n", " ", "\n", "B", "=">>
    /\ request.op = "Create"
    /\ request.params.tags =
         <<[key |-> <<"A">>, value |-> <<"1">>], [key |-> <<"B">>, value |-> <<>>]>>

\* the split is at the first "=" and the order of the lines is kept
C27_WitnessFirstEqual ==
    /\ inputs["tags"] =
         <<" ", "C", " ", "=", "3", "\n", "A", "=", "x", "=", "y", " ">>
    /\ request.op # "none"
    /\ request.params.tags =
         <<[key |-> <<"C">>, value |-> <<"3">>],
           [key |-> <<"A">>, value |-> <<"x", "=", "y">>]>>

\* a later line without "=": the failure names that line
C27_WitnessNoEqual ==
    /\ inputs["tags"] = <<"A", "=", "1", "\n", "B", " ", "\n", "=", "v">>
    /\ pc = "done"
    /\ Len(failed) >= 1
    /\ failed[1] = <<"Tag parsing failed:", "Invalid tag format:", "B",
                     "Expected format: key=value">>

\* a line with an empty key
C27_WitnessEmptyKey ==
    /\ inputs["tags"] = <<"=", "v">>
    /\ pc = "done"
    /\ Len(failed) >= 1
    /\ failed[1] = <<"Tag parsing failed:", "Empty tag key in line:", "=", "v">>


\* C28: a scaling configuration with min-task-count greater than max-task-count
\* is rejected by validation: no create or update request carries a
\* scalingTarget whose minTaskCount is greater than its maxTaskCount.
C28_MinNotAboveMax ==
    (/\ request.op # "none"
     /\ "scalingTarget" \in DOMAIN request.params
     /\ {"minTaskCount", "maxTaskCount"} \subseteq DOMAIN request.params.scalingTarget
     /\ ~request.params.scalingTarget.minTaskCount.nan
     /\ ~request.params.scalingTarget.maxTaskCount.nan)
    => request.params.scalingTarget.minTaskCount.mantissa
          <= request.params.scalingTarget.maxTaskCount.mantissa

\* C29: every security group given as input is in
\* networkConfiguration.securityGroups of the request sent to the platform,
\* also when no subnets are given.
C29_SecurityGroupsAreSent ==
    (request.op # "none" /\ Present(inputs["security-groups"]))
    => \A i \in 1..Len(SplitList(inputs["security-groups"])) :
          /\ "networkConfiguration" \in DOMAIN request.params
          /\ "securityGroups" \in DOMAIN request.params.networkConfiguration
          /\ \E j \in 1..Len(request.params.networkConfiguration.securityGroups) :
                request.params.networkConfiguration.securityGroups[j] =
                    SplitList(inputs["security-groups"])[i]


\* C30: a JSON tag array and a block of key=value lines that describe the same
\* tags parse to tag lists with the same contents, so the request sent to the
\* platform carries the same tags whichever format the input has.
C30_SameTagsEitherFormat ==
    \A list \in LogicalTagLists :
       (inputs["tags"] \in {ToJSON(list), ToMultiline(list)}
           /\ pc \in {"poll", "done"} /\ calls.DescribeServices = 1
           /\ describeResponse.kind = "none"
           /\ \A f \in {"environment-variables", "secrets", "command"} :
                 ~Present(inputs[f]) \/ ParseJSON(inputs[f]).ok)
       => /\ request.op # "none"
          /\ IF list = <<>>
             THEN "tags" \notin DOMAIN request.params
             ELSE /\ "tags" \in DOMAIN request.params
                  /\ {request.params.tags[i] : i \in 1..Len(request.params.tags)}
                        = {list[i] : i \in 1..Len(list)}

\* the tags B (empty value) and A:1 given as a JSON array
C30_Witness ==
    /\ inputs["tags"] =
         <<"[", "{", "B", ":", "}", ",", " ", "{", "A", ":", "1", "}", "]">>
    /\ request.op = "Create"
    /\ request.params.tags = <<[key |-> <<"B">>, value |-> <<>>], Tag("A", "1")>>

\* the same tags given as key=value lines
C30_WitnessMultiline ==
    /\ inputs["tags"] = <<"B", "=", "\n", "A", "=", "1", "\n">>
    /\ request.op = "Create"
    /\ request.params.tags = <<[key |-> <<"B">>, value |-> <<>>], Tag("A", "1")>>


\* a pinned deployment stays pinned whatever the platform would list in an
\* iteration that sees the service ACTIVE: the iteration lists nothing and
\* describes that deployment (part of C31)
C31_PinnedWhateverIsListed ==
    deploymentArn # <<>>
    => \A list \in ListResponses, dep \in DeploymentResponses :
          LET svc == [kind |-> "service", message |-> <<>>, statusCode |-> "ACTIVE"]
              r == Iteration(serviceActive, deploymentArn, svc, list, dep, <<>>)
          IN  /\ r.deploymentArn = deploymentArn
              /\ ~Includes(r.tick.calls, "ListServiceDeployments")
              /\ Includes(r.tick.calls, "DescribeServiceDeployments")
                    => r.tick.dep.arn = deploymentArn

\* the steps that follow the pinning (part of C31)
C31_PinnedStep ==
    deploymentArn # <<>>
    => /\ deploymentArn' = deploymentArn
       /\ ~Includes(tick'.calls, "ListServiceDeployments")
       /\ tick'.list = NoTick.list
       /\ Includes(tick'.calls, "DescribeServiceDeployments")
             => tick'.dep.arn = deploymentArn

\* C31: once the poller has located a deployment its identifier is pinned for
\* the rest of the wait: the deployments are never listed again and every
\* later describe call for a deployment names that identifier, whatever a
\* later listing would return.
C31_DeploymentIsPinned ==
    []C31_PinnedWhateverIsListed /\ [][C31_PinnedStep]_vars

\* an iteration after the one that pinned D2: no listing, D2 described
C31_Witness ==
    /\ deploymentArn = D2
    /\ tick.calls = <<"DescribeExpressGatewayService", "DescribeServiceDeployments">>
    /\ tick.dep.arn = D2
    /\ tick.dep.status = "IN_PROGRESS"
    /\ pc = "poll"


\* the listing of an iteration carries the filter, and an empty listing leaves
\* the poller locating (part of C32)
C32_FilteredListing ==
    /\ Includes(tick.calls, "ListServiceDeployments")
         => /\ tick.listRequest.service = finalServiceArn
            /\ tick.listRequest.after = deploymentStartTime
            /\ deploymentStartTime <= startTime
    /\ (Includes(tick.calls, "ListServiceDeployments")
           /\ tick.list.kind = "ok" /\ tick.list.arns = <<>>)
         => /\ deploymentArn = <<>>
            /\ ~Includes(tick.calls, "DescribeServiceDeployments")
            /\ PollerState = "LOCATING_DEPLOYMENT"
            /\ failed = <<>>

\* the timestamp is the clock when the command is sent, a deployment is pinned
\* only from a filtered listing of the same iteration, and the iteration of an
\* empty listing ends in a sleep of one cadence (part of C32)
C32_Step ==
    /\ (request.op = "none" /\ request'.op # "none")
         => /\ deploymentStartTime' = now
            /\ now' >= now
    /\ (deploymentArn = <<>> /\ deploymentArn' # <<>>)
         => /\ Includes(tick'.calls, "ListServiceDeployments")
            /\ tick'.list.kind = "ok"
            /\ deploymentArn' = tick'.list.arns[1]
            /\ tick'.listRequest.after = deploymentStartTime
    /\ (pc = "poll" /\ Includes(tick'.calls, "ListServiceDeployments")
           /\ tick'.list.kind = "ok" /\ tick'.list.arns = <<>>)
         => /\ pc' = "poll"
            /\ now' >= now + pollIntervalSeconds * 1000

\* C32: the poller never pins a deployment record from before the current
\* operation: the start timestamp is taken before the create/update command is
\* sent, every listing of deployments is filtered to those created after that
\* timestamp, and an empty listing leaves the poller locating (sleep one
\* cadence, retry) instead of failing or falling back to an older record.
C32_OnlyDeploymentsOfThisOperation == []C32_FilteredListing /\ [][C32_Step]_vars

\* an empty listing in an invocation whose command took SlowCall to answer
C32_Witness ==
    /\ Includes(tick.calls, "ListServiceDeployments")
    /\ tick.list.arns = <<>>
    /\ tick.list.kind = "ok"
    /\ tick.listRequest.after = 0
    /\ startTime = SlowCall
    /\ pc = "poll"


C34_ElapsedIsBounded ==
    pc = "poll"
        => now - startTime <= maxWaitMs + SlowCall + pollIntervalSeconds * 1000

\* every iteration that goes on moves the clock by one cadence at least, and
\* once the elapsed time exceeds the ceiling no iteration is started (part of
\* C34)
C34_Progress ==
    /\ (pc = "poll" /\ pc' = "poll")
         => now' - startTime' >= (now - startTime) + pollIntervalSeconds * 1000
    /\ (pc = "poll" /\ now - startTime > maxWaitMs)
         => /\ pollExit' = "break"
            /\ tick'.calls = <<>>
            /\ pc' = "done"

\* C34: when every remote call returns and every sleep advances the clock by
\* one cadence, the poller terminates whatever the platform answers: it reaches
\* STABLE, FAILED or TIMED_OUT after finitely many iterations and starts no
\* iteration once the elapsed time exceeds the ceiling.
C34_PollerTerminates ==
    /\ []C34_ElapsedIsBounded
    /\ [][C34_Progress]_vars
    /\ (pc = "poll") ~> (PollerState \in {"STABLE", "FAILED", "TIMED_OUT"})

\* the poller ended by the ceiling after iterations that saw nothing conclusive
C34_Witness ==
    /\ PollerState = "TIMED_OUT"
    /\ now - startTime > maxWaitMs
    /\ serviceActive
    /\ deploymentArn = <<>>


(***************************************************************************)
(* C35: an error ends the invocation with one failure                      *)
(***************************************************************************)
\* C35: whatever step the error occurs at, the invocation ends failed with
\* that error's message and core.setFailed is called exactly once. Violated:
\* an error of the tag parsers is reported by the catch around them and again
\* by the catch of run(), so the invocation ends with two failures
C35_FailureRaisedOnce ==
    /\ Len(failed) <= 1
    /\ BuildError(inputs) # <<>> /\ pc = "done" /\ request = NoRequest
          /\ calls.DescribeServices > 0 /\ describeResponse = NoDescribe
          /\ tagging.failure = "none"
       => failed = <<BuildError(inputs)>>


(***************************************************************************)
(* C37: inputs that fail validation change nothing on the platform         *)
(***************************************************************************)
\* the inputs fail validation: a required input is blank, the execution-role
\* ARN has fewer than five segments, a JSON input or the tag text is malformed
C37_InvalidInputs ==
    \/ \E name \in DOMAIN RequiredInputs : IsBlank(inputs[name])
    \/ Len(Split(inputs["execution-role-arn"], ":")) < 5
    \/ \E f \in {"environment-variables", "secrets", "command"} :
          Present(inputs[f]) /\ ~ParseJSON(inputs[f]).ok
    \/ Present(inputs["tags"]) /\ ~ParseTags(inputs["tags"]).ok

C37_NoMutation ==
    C37_InvalidInputs
    => /\ calls.Create = 0
       /\ calls.Update = 0
       /\ request = NoRequest
       /\ response = NoMutation
       /\ tagging.calls = <<>>
       /\ pc \notin {"update", "poll"}

C37_PlatformUntouched ==
    C37_InvalidInputs
    => /\ remoteTags' = remoteTags
       /\ remote' = remote
       /\ pc' = "done" => failed' # <<>>

\* C37: an invocation whose inputs fail validation issues no create and no
\* update call (and no tag call), leaves the remote service and its tags as
\* they were, and ends failed.
C37_InvalidInputsLeaveRemoteUnmodified ==
    /\ []C37_NoMutation
    /\ [][C37_PlatformUntouched]_vars

\* a malformed command noticed after the existence query found a service that
\* has tags on the platform
C37_Witness ==
    /\ pc = "done"
    /\ C37_InvalidInputs
    /\ calls.DescribeServices = 1
    /\ describeResponse.kind = "none"
    /\ serviceExists
    /\ inputs["command"] = <<"run", "]">>
    /\ remoteTags # <<>>

\* a blank required input
C37_WitnessBlank ==
    /\ pc = "done"
    /\ IsBlank(inputs["infrastructure-role-arn"])
    /\ calls.DescribeServices = 0
    /\ failed = <<RequiredMessage("infrastructure-role-arn")>>


(***************************************************************************)
(* C38: the endpoint output                                                *)
(***************************************************************************)
\* C38: the endpoint output is set at most once, only by the tick that finds
\* the service ACTIVE and the pinned deployment SUCCESSFUL and so ends the
\* loop STABLE; a run that ends FAILED or TIMED_OUT has no endpoint output.
C38_EndpointOnlyWhenStable ==
    /\ Len(EndpointOutputs) <= 1
    /\ EndpointOutputs # <<>>
       => /\ PollerState = "STABLE"
          /\ pc = "done"
          /\ tick.svc.statusCode = "ACTIVE"
          /\ deploymentArn # <<>>
          /\ tick.dep.arn = deploymentArn
          /\ tick.dep.status = "SUCCESSFUL"
          /\ EndpointOutputs[1][2] = ExtractEndpoint(tick.activeConfigurations)
          /\ outputs[Len(outputs)] = EndpointOutputs[1]
    /\ PollerState \in {"FAILED", "TIMED_OUT"} => EndpointOutputs = <<>>

\* a run that ends STABLE with its endpoint set
C38_Witness ==
    /\ PollerState = "STABLE"
    /\ Len(EndpointOutputs) = 1
    /\ tick.dep.status = "SUCCESSFUL"
    /\ tick.svc.statusCode = "ACTIVE"

\* a run that ends STABLE although the deployment has no endpoint
C38_WitnessNoEndpoint ==
    /\ PollerState = "STABLE"
    /\ EndpointOutputs = <<>>
    /\ tick.dep.status = "SUCCESSFUL"


(***************************************************************************)
(* Invocations one after another against the platform's record, which      *)
(* other actors change too: run() up to the call of waitForServiceStable   *)
(***************************************************************************)
\* the most changes other actors make to the service
MaxForeignChanges == 1

\* the most times the workflow runs the action again with the same inputs
MaxReruns == 1

RemoteStatuses == {"absent", "ACTIVE", "DRAINING", "INACTIVE"}

RemoteInputs ==
    { WithInputs(("service-name" :> sn) @@ ("execution-role-arn" :> er)
                 @@ ("cluster" :> cl) @@ RequiredInputs)
      : sn \in {<<"svc">>, <<"my-app">>}, er \in {ExecutionRole, ShortRole},
        cl \in {<<>>, <<"prod">>} }

\* the platform answers DescribeServices from its record of the service, or
\* with an error; the errors that say nothing is there come when nothing is
Answers(service, resp) ==
    IF resp.kind = "ok"
    THEN resp.services = IF service.status = "absent" THEN <<>>
                         ELSE <<[status |-> service.status]>>
    ELSE IsNotFound(resp.error) => service.status = "absent"

\* the existence check against the platform's record
CheckRemote ==
    /\ CheckServiceExists
    /\ Answers(remote, describeResponse')

\* another actor creates, drains or removes the service
OtherActor ==
    /\ pc \in {"start", "check", "dispatch"}
    /\ remote.changes < MaxForeignChanges
    /\ \E status \in RemoteStatuses \ {remote.status} :
         remote' = [status |-> status, changes |-> remote.changes + 1]
    /\ UNCHANGED <<inputs, region, pc, now, serviceArn, serviceExists,
                   describeResponse, request, response, deploymentStartTime,
                   finalServiceArn, calls, outputs, failed, invocations>>
    /\ UNCHANGED pollVars
    /\ UNCHANGED tagVars

\* what is known of an invocation once it is over
Invocation(arn, req, resp) ==
    [serviceArn |-> arn, op |-> req.op,
     created |-> req.op = "Create" /\ resp.kind = "ok"]

\* the workflow runs the action again with the same inputs: a new process
Rerun ==
    /\ pc \in {"poll", "done"}
    /\ Len(invocations) < MaxReruns
    /\ invocations' = Append(invocations, Invocation(serviceArn, request, response))
    /\ pc' = "start"
    /\ serviceArn' = <<>>
    /\ serviceExists' = FALSE
    /\ describeResponse' = NoDescribe
    /\ request' = NoRequest
    /\ response' = NoMutation
    /\ deploymentStartTime' = 0
    /\ finalServiceArn' = <<>>
    /\ startTime' = 0
    /\ calls' = [DescribeServices |-> 0, Create |-> 0, Update |-> 0]
    /\ outputs' = <<>>
    /\ failed' = <<>>
    /\ UNCHANGED <<inputs, region, now, serviceActive, deploymentArn, pollExit,
                   tick, remote>>
    /\ UNCHANGED tagVars

InitRemote ==
    /\ inputs \in RemoteInputs
    /\ region \in Regions
    /\ pc = "start"
    /\ now = 0
    /\ serviceArn = <<>>
    /\ serviceExists = FALSE
    /\ describeResponse = NoDescribe
    /\ request = NoRequest
    /\ response = NoMutation
    /\ deploymentStartTime = 0
    /\ finalServiceArn = <<>>
    /\ startTime = 0
    /\ serviceActive = FALSE
    /\ deploymentArn = <<>>
    /\ pollExit = "none"
    /\ tick = NoTick
    /\ calls = [DescribeServices |-> 0, Create |-> 0, Update |-> 0]
    /\ remoteTags = <<>>
    /\ tagging = NoTagging
    /\ remote \in [status : RemoteStatuses, changes : {0}]
    /\ invocations = <<>>
    /\ outputs = <<>>
    /\ failed = <<>>

NextRemote ==
    \/ ValidateInputs
    \/ CheckRemote
    \/ OtherActor
    \/ Dispatch
    \/ Rerun

SpecRemote == InitRemote /\ [][NextRemote]_vars


(***************************************************************************)
(* C36: the same inputs run again after a create                           *)
(***************************************************************************)
\* an earlier invocation created the service and no other actor has changed
\* it since the first invocation began
C36_CreatedBefore ==
    /\ \E i \in 1..Len(invocations) : invocations[i].created
    /\ remote.changes = 0

\* C36: when an invocation has created the service and the same inputs are
\* run again with no other change to the platform's record, the later
\* invocation constructs the same service ARN, classifies the service as
\* existing and sends an update for that ARN, never a second create.
C36_RerunUpdates ==
    C36_CreatedBefore
    => /\ remote.status = "ACTIVE"
       /\ pc # "start" => serviceArn = invocations[1].serviceArn
       /\ (pc \in {"dispatch", "poll"} \/ request # NoRequest) => serviceExists
       /\ calls.Create = 0
       /\ request # NoRequest
          => /\ request.op = "Update"
             /\ request.params.serviceArn = invocations[1].serviceArn
             /\ calls.Update = 1

\* the second invocation has sent its update for the ARN the first one made
C36_Witness ==
    /\ C36_CreatedBefore
    /\ Len(invocations) = 1
    /\ pc = "poll"
    /\ request.op = "Update"
    /\ request.params.serviceArn = invocations[1].serviceArn
    /\ response.kind = "ok"


(***************************************************************************)
(* C39: the classification may be stale when the command is sent           *)
(***************************************************************************)
\* the step that sends the create or update command
C39_Sends == pc = "dispatch" /\ request' # NoRequest

\* the command follows the classification made when the existence query was
\* answered, whatever the platform's record is by now; the query is not sent
\* again, and the invocation goes on or fails as the platform answers
C39_StaleChoice ==
    C39_Sends
    => /\ request'.op = IF serviceExists THEN "Update" ELSE "Create"
       /\ serviceExists' = serviceExists
       /\ calls'.DescribeServices = calls.DescribeServices
       /\ calls.DescribeServices = 1
       /\ calls'.Create + calls'.Update = 1
       /\ response' \in MutationResponses
       /\ IF response'.kind = "ok"
          THEN pc' = "poll" /\ failed' = <<>>
          ELSE /\ pc' = "done"
               /\ failed' = <<TranslateError(response'.error, ClusterName(inputs))>>

\* between the answer of the existence query and the command, only another
\* actor changes the platform's record: the invocation holds no lock on it
C39_NotLocked ==
    (pc = "dispatch" /\ pc' = "dispatch" /\ remote' # remote)
    => /\ remote'.changes = remote.changes + 1
       /\ serviceExists' = serviceExists
       /\ calls' = calls

\* C39: the existence check and the command are not atomic: when another
\* actor creates or removes the service in between, the invocation still
\* sends the command chosen from the classification it made, without asking
\* again, and ends as the platform answers.
C39_CheckThenActIsNotAtomic ==
    /\ [][C39_StaleChoice]_vars
    /\ [][C39_NotLocked]_vars

\* a create was sent for a service another actor had created in between
C39_Witness ==
    /\ request.op = "Create"
    /\ ~serviceExists
    /\ calls.DescribeServices = 1
    /\ describeResponse = NoDescribe
    /\ remote.status = "ACTIVE"
    /\ remote.changes = 1
    /\ invocations = <<>>
    /\ response.kind = "error"

\* an update was sent for a service another actor had removed in between
C39_WitnessUpdate ==
    /\ request.op = "Update"
    /\ serviceExists
    /\ remote.status = "absent"
    /\ remote.changes = 1
    /\ invocations = <<>>

====
